---- MODULE Spec2Model ----
(***************************************************************************)
(* Model of DeepResearchAI: the Flask task/progress-streaming subsystem    *)
(* (src/web/app.py) and the LangGraph stage orchestrator                   *)
(* (src/deep_research/workflow.py).                                        *)
(*                                                                         *)
(* A worker thread (run_research_with_updates) is modelled one step per    *)
(* operation it performs on shared state (a put on its queue, the history  *)
(* save); the thread-local computation that precedes the operation (a      *)
(* stage call and its outcome) is part of the same step.  A stream handler *)
(* (research_progress.generate) is a generator: one step per resumption,   *)
(* from one yield to the next.                                             *)
(***************************************************************************)
EXTENDS Integers, Sequences, FiniteSets, TLC

(* ------------------------------ bounds --------------------------------- *)
\* number of accepted POST /stream_research submissions
MaxSubmits == 1
\* number of GET /research_progress/<task_id> requests
MaxStreams == 2
\* the clock int(time.time()) ranges over 0..MaxTime
MaxTime == 1
\* supersteps one graph.stream call may take before the library gives up
\* (LangGraph's recursion limit)
MaxSupersteps == 5
\* concurrent calls of save_research_to_history
MaxSaves == 2
\* submissions (POST /research and POST /stream_research) the front end handles
MaxRequests == 3

(* ------------------------------ inputs --------------------------------- *)
\* non-empty questions a client submits
Questions == {"qa", "qb"}

\* hash(question) % 10000, app.py line 337 and line 71
hash(q) == IF q = "qa" THEN 11 ELSE 22

\* f"task_{int(time.time())}_{hash(question) % 10000}"
task_id_of(t, q) == <<"task", t, hash(q)>>

\* every task id a client can ask for
TaskIds == {task_id_of(t, q) : t \in 0..MaxTime, q \in Questions}

\* f"{timestamp}_{hash(question) % 10000}" with a one-second timestamp
research_id_of(t, q) == <<t, hash(q)>>

\* A text (a Python str the program builds) is a sequence of pieces, so that an
\* f-string is a concatenation; a question stays one piece.
\* what the finalize stage can hand back: its answer and its sources
Answers == {<<"final answer">>}
SourceLists == {<<[url |-> "u1", title |-> "t1"]>>}
FinalAnswers(q) ==
    {[question |-> q, answer |-> a, sources |-> s] : a \in Answers, s \in SourceLists}

\* str(e) of the exception raised at a place of the worker
ExcText(place) == <<"exception at ", place>>

VARIABLES
    now,             \* int(time.time())
    research_tasks,  \* the registry: task_id -> [queue, status]
    progress_queue,  \* content of the queue.Queue created by submission w
    put_log,         \* every update worker w has put, in order (history variable)
    worker,          \* run_research_with_updates thread of submission w
    history_files,   \* web/research_history/<id>.json : id -> record
    stream,          \* generate() of the s-th research_progress request
    wf,              \* one call of DeepResearchWorkflow.run and its compiled graph
    sync,            \* one call of run_research, the synchronous runner
    save_call,       \* save_research_to_history as called by the c-th request thread
    ra,              \* one call of ResearchAgent.conduct_research, call by call
    submission       \* the submissions handled so far and what each did, in order

webvars == <<now, research_tasks, progress_queue, put_log, worker, history_files, stream>>
vars == <<now, research_tasks, progress_queue, put_log, worker, history_files, stream, wf, sync,
          save_call, ra, submission>>

Workers == 1..MaxSubmits
Streams == 1..MaxStreams

(* ------------------------- progress updates ---------------------------- *)
Update(step, message, progress) ==
    [status |-> "in_progress", step |-> step, message |-> <<message>>, progress |-> progress]

\* lines 115-120
UpdateStarting == Update("starting", "Starting research process...", 5)
\* lines 127-132
UpdateInitLangGraph == Update("initializing", "Initializing LangGraph workflow...", 10)
\* lines 136-141
UpdateResearchingLangGraph == Update("researching", "Conducting research with LangGraph...", 20)
\* lines 145-150
UpdateInitAgents == Update("initializing", "Initializing research agents...", 10)
\* lines 155-160
UpdateSearching ==
    Update("searching", "Generating search queries and performing web searches...", 20)
\* mutant: the extraction checkpoint reports less than the checkpoint before it
UpdateExtracting_Low == Update("extracting", "Extracting content from web pages...", 15)

\* lines 163-168
UpdateExtracting == Update("extracting", "Extracting content from web pages...", 40)
\* lines 172-177
UpdateDrafting ==
    Update("drafting", "Drafting initial answer based on research findings...", 60)
\* lines 181-186
UpdateFactChecking ==
    Update("fact_checking", "Fact-checking the drafted answer against sources...", 80)
\* lines 190-195
UpdateFinalizing == Update("finalizing", "Finalizing the answer with citations...", 90)

\* lines 214-220
UpdateCompleted(results) ==
    [status |-> "completed", step |-> "completed",
     message |-> <<"Research completed successfully!">>,
     progress |-> 100, results |-> results]

\* mutant: the degraded result loses the error text
error_results_NoErrors(question, e) ==
    [question |-> question,
     answer |-> <<"An error occurred during research: ">> \o e,
     sources |-> <<>>, status |-> "error", errors |-> <<>>]

\* lines 224-230
error_results(question, e) ==
    [question |-> question,
     answer |-> <<"An error occurred during research: ">> \o e,
     sources |-> <<>>, status |-> "error", errors |-> <<e>>]

\* lines 233-239
UpdateError(question, e) ==
    [status |-> "error", step |-> "error", message |-> <<"Error: ">> \o e,
     progress |-> 100, results |-> error_results(question, e)]

(* ---------------------- DeepResearchWorkflow.run ----------------------- *)
\* the dict {} and dict.get(k, default)
EmptyDict == [k \in {} |-> <<>>]
Get(d, k, default) == IF k \in DOMAIN d THEN d[k] ELSE default

\* workflow.py lines 372-377
run_success(question, final_answer) ==
    [question |-> question,
     answer |-> Get(final_answer, "answer", <<"No answer generated.">>),
     sources |-> Get(final_answer, "sources", <<>>), status |-> "success"]

\* workflow.py lines 379-384
run_partial(question, draft_answer) ==
    [question |-> question,
     answer |-> Get(draft_answer, "answer", <<"No answer generated.">>),
     sources |-> Get(draft_answer, "sources", <<>>), status |-> "partial"]

\* workflow.py lines 386-392
run_failed(question, errors) ==
    [question |-> question, answer |-> <<"Failed to generate an answer.">>,
     sources |-> <<>>, status |-> "failed", errors |-> errors]

\* workflow.py lines 396-402
run_error(question, e) ==
    [question |-> question, answer |-> <<"An error occurred during research: ">> \o e,
     sources |-> <<>>, status |-> "error", errors |-> <<e>>]

(* --------------------------- initial state ----------------------------- *)
IdleWorker ==
    [pc |-> "idle", question |-> "", use_langgraph |-> FALSE, task_id |-> <<>>,
     slept |-> 0, stages |-> 0, results |-> <<>>, e |-> <<>>, saves |-> 0]

IdleStream == [pc |-> "idle", task_id |-> <<>>, queue |-> 0, events |-> <<>>]

\* Python's None
NoneValue == [none |-> TRUE]

\* no stage result yet: the four slots as run initialises them (lines 345-348)
NoSlots ==
    [research_results |-> EmptyDict, draft_answer |-> EmptyDict,
     fact_check |-> EmptyDict, final_answer |-> EmptyDict]

\* run_research has not been called.  entry: the module whose run_research it
\* is; searches, pages, llms: what the collaborators did in this call (history
\* variables); computed: the stage calls made so far, each with the slots that
\* were filled when it was made (history variable)
IdleSync ==
    [pc |-> "idle", entry |-> "", question |-> "", use_langgraph |-> FALSE,
     research_results |-> EmptyDict, draft_answer |-> EmptyDict,
     fact_check |-> EmptyDict, final_answer |-> EmptyDict,
     results |-> EmptyDict, e |-> <<>>, saved |-> FALSE,
     searches |-> <<>>, pages |-> <<>>, llms |-> <<>>, computed |-> <<>>]

\* run has not been called.  state: the graph's channel values; active: the
\* nodes of the next superstep; produced: what the stage calls returned so far
\* (history variable); raised: the stages whose call raised (history variable);
\* ran: the nodes each superstep has executed, in order (history variable)
IdleRun ==
    [pc |-> "idle", question |-> "", initial |-> EmptyDict, state |-> EmptyDict,
     active |-> {}, step |-> 0, final_state |-> NoneValue, result |-> EmptyDict,
     produced |-> NoSlots, raised |-> {}, ran |-> <<>>, exception |-> <<>>]

\* a request thread that has not called save_research_to_history yet
IdleSave ==
    [pc |-> "idle", question |-> "", answer |-> <<>>, sources |-> <<>>,
     timestamp |-> 0, research_id |-> <<>>]

Savers == 1..MaxSaves

\* conduct_research has not been called.  i: the index of the query the search
\* loop is at; in_flight: the collaborator calls that were made and have not
\* come back (history variable)
IdleResearch ==
    [pc |-> "idle", question |-> "", search_queries |-> <<>>, i |-> 1,
     all_results |-> <<>>, unique_urls |-> {}, extracted |-> {}, url |-> "",
     content_list |-> <<>>, sources |-> <<>>, summary |-> <<>>, in_flight |-> {}]

Init ==
    /\ now = 0
    /\ research_tasks = <<>>
    /\ progress_queue = [w \in Workers |-> <<>>]
    /\ put_log = [w \in Workers |-> <<>>]
    /\ worker = [w \in Workers |-> IdleWorker]
    /\ history_files = <<>>
    /\ stream = [s \in Streams |-> IdleStream]
    /\ wf = IdleRun
    /\ sync = IdleSync
    /\ save_call = [c \in Savers |-> IdleSave]
    /\ ra = IdleResearch
    /\ submission = <<>>

(* ------------------------------ the clock ------------------------------ *)
\* one second passes
Tick ==
    /\ now < MaxTime
    /\ now' = now + 1
    /\ UNCHANGED <<research_tasks, progress_queue, put_log, worker, history_files, stream>>

(* --------------------- POST /stream_research --------------------------- *)
\* the next unused submission slot: submissions are numbered in arrival order
NextWorker == CHOOSE w \in Workers : worker[w].pc = "idle" /\ \A v \in 1..(w - 1) : worker[v].pc # "idle"

\* research_tasks[task_id] = {...}: a plain dict store, an existing key is replaced
RegistryPut(reg, tid, entry) ==
    [t \in DOMAIN reg \cup {tid} |-> IF t = tid THEN entry ELSE reg[t]]

\* research_tasks.pop(task_id, None)
RegistryPop(reg, tid) == [t \in DOMAIN reg \ {tid} |-> reg[t]]

\* stream_research, lines 327-357, for a non-empty question
stream_research(question, use_langgraph) ==
    /\ \E w \in Workers : worker[w].pc = "idle"
    /\ LET w == NextWorker
           task_id == task_id_of(now, question)
       IN /\ research_tasks' =
                 RegistryPut(research_tasks, task_id, [queue |-> w, status |-> "starting"])
          /\ worker' = [worker EXCEPT ![w] =
                 [IdleWorker EXCEPT !.pc = "l115", !.question = question,
                                    !.use_langgraph = use_langgraph, !.task_id = task_id]]
    /\ UNCHANGED <<now, progress_queue, put_log, history_files, stream>>

(* ------------------- run_research_with_updates ------------------------- *)
\* mutant: the queue holds one update, a put waits while it is full
Put_Bounded(w, u) ==
    /\ Len(progress_queue[w]) < 1
    /\ progress_queue' = [progress_queue EXCEPT ![w] = Append(@, u)]
    /\ put_log' = [put_log EXCEPT ![w] = Append(@, u)]

\* progress_queue.put(u) by worker w
Put(w, u) ==
    /\ progress_queue' = [progress_queue EXCEPT ![w] = Append(@, u)]
    /\ put_log' = [put_log EXCEPT ![w] = Append(@, u)]

Goto(w, pc) == worker' = [worker EXCEPT ![w].pc = pc]

\* a stage call has returned: control moves on (stages counts the returns)
StageReturned(w, pc) == worker' = [worker EXCEPT ![w].pc = pc, ![w].stages = @ + 1]

\* an exception raised at `place` inside the try of line 113: control moves to line 222
Raise(w, place) ==
    /\ worker' = [worker EXCEPT ![w].pc = "l222", ![w].e = ExcText(place)]
    /\ UNCHANGED <<progress_queue, put_log>>

\* what a call that is not under the worker's control can do
Outcomes == {"returns", "raises"}

\* lines 115-122
WorkerStart(w) ==
    /\ worker[w].pc = "l115"
    /\ Put(w, UpdateStarting)
    /\ Goto(w, IF worker[w].use_langgraph THEN "l124" ELSE "l145")
    /\ UNCHANGED <<now, research_tasks, history_files, stream>>

\* lines 124-132: import the workflow module, then announce the initialisation
WorkerLgImport(w) ==
    /\ worker[w].pc = "l124"
    /\ \E o \in Outcomes :
          IF o = "raises" THEN Raise(w, "import deep_research.workflow")
          ELSE Put(w, UpdateInitLangGraph) /\ Goto(w, "l133")
    /\ UNCHANGED <<now, research_tasks, history_files, stream>>

\* lines 133-141: build the workflow, then announce the run
WorkerLgInit(w) ==
    /\ worker[w].pc = "l133"
    /\ \E o \in Outcomes :
          IF o = "raises" THEN Raise(w, "DeepResearchWorkflow()")
          ELSE Put(w, UpdateResearchingLangGraph) /\ Goto(w, "l142")
    /\ UNCHANGED <<now, research_tasks, history_files, stream>>

\* the records the return statements of DeepResearchWorkflow.run build
RunOutcomes(q) ==
    {run_success(q, fa) : fa \in FinalAnswers(q)}
        \cup {run_partial(q, da) : da \in FinalAnswers(q)}
        \cup {run_failed(q, <<>>), run_error(q, ExcText("graph.stream"))}

\* line 142: results = workflow.run(question); run has its own catch-all
WorkerLgRun(w) ==
    /\ worker[w].pc = "l142"
    /\ \E r \in RunOutcomes(worker[w].question) :
          worker' = [worker EXCEPT ![w].pc = "l206", ![w].results = r]
    /\ UNCHANGED <<now, research_tasks, progress_queue, put_log, history_files, stream>>

\* lines 145-152: ResearchAgent() and AnswerAgent() only set a name
WorkerInitAgents(w) ==
    /\ worker[w].pc = "l145"
    /\ Put(w, UpdateInitAgents)
    /\ Goto(w, "l155")
    /\ UNCHANGED <<now, research_tasks, history_files, stream>>

\* lines 155-161: announce the search, then time.sleep(1) starts
WorkerSearching(w) ==
    /\ worker[w].pc = "l155"
    /\ Put(w, UpdateSearching)
    /\ worker' = [worker EXCEPT ![w].pc = "l161", ![w].slept = now]
    /\ UNCHANGED <<now, research_tasks, history_files, stream>>

\* lines 161-168: the sleep is over once a second has passed (the clock of the
\* model stops at MaxTime, where the sleep is let through)
WorkerExtracting(w) ==
    /\ worker[w].pc = "l161"
    /\ now > worker[w].slept \/ now = MaxTime
    /\ Put(w, UpdateExtracting)
    /\ Goto(w, "l169")
    /\ UNCHANGED <<now, research_tasks, history_files, stream>>

\* lines 169-177
WorkerResearch(w) ==
    /\ worker[w].pc = "l169"
    /\ \E o \in Outcomes :
          IF o = "raises" THEN Raise(w, "conduct_research")
          ELSE Put(w, UpdateDrafting) /\ StageReturned(w, "l178")
    /\ UNCHANGED <<now, research_tasks, history_files, stream>>

\* mutant: the draft stage returns and nothing is put before the fact check
WorkerDraft_Silent(w) ==
    /\ worker[w].pc = "l178"
    /\ \E o \in Outcomes :
          IF o = "raises" THEN Raise(w, "draft_answer")
          ELSE StageReturned(w, "l187") /\ UNCHANGED <<progress_queue, put_log>>
    /\ UNCHANGED <<now, research_tasks, history_files, stream>>

\* lines 178-186
WorkerDraft(w) ==
    /\ worker[w].pc = "l178"
    /\ \E o \in Outcomes :
          IF o = "raises" THEN Raise(w, "draft_answer")
          ELSE Put(w, UpdateFactChecking) /\ StageReturned(w, "l187")
    /\ UNCHANGED <<now, research_tasks, history_files, stream>>

\* lines 187-195
WorkerFactCheck(w) ==
    /\ worker[w].pc = "l187"
    /\ \E o \in Outcomes :
          IF o = "raises" THEN Raise(w, "fact_check")
          ELSE Put(w, UpdateFinalizing) /\ StageReturned(w, "l196")
    /\ UNCHANGED <<now, research_tasks, history_files, stream>>

\* lines 198-203
direct_results(question, final_answer) ==
    [question |-> question, answer |-> final_answer.answer,
     sources |-> final_answer.sources, status |-> "success"]

\* lines 196-203
WorkerFinalize(w) ==
    /\ worker[w].pc = "l196"
    /\ \/ Raise(w, "finalize_answer")
       \/ /\ \E fa \in FinalAnswers(worker[w].question) :
                worker' = [worker EXCEPT ![w].pc = "l206", ![w].stages = @ + 1,
                              ![w].results = direct_results(worker[w].question, fa)]
          /\ UNCHANGED <<progress_queue, put_log>>
    /\ UNCHANGED <<now, research_tasks, history_files, stream>>

(* --------------------- save_research_to_history ------------------------ *)
\* lines 73-79
research_data(research_id, timestamp, question, answer, sources) ==
    [id |-> research_id, timestamp |-> timestamp, question |-> question,
     answer |-> answer, sources |-> sources]

\* lines 90-91: open(..., 'w') replaces a file of the same name
FileWrite(files, research_id, data) ==
    [i \in DOMAIN files \cup {research_id} |-> IF i = research_id THEN data ELSE files[i]]

\* results["id"] = research_id, lines 211 and 294
WithId(results, research_id) ==
    [k \in DOMAIN results \cup {"id"} |-> IF k = "id" THEN research_id ELSE results[k]]

\* mutant: a failing save is swallowed and the worker goes on to its last put
WorkerSave_Swallows(w) ==
    /\ worker[w].pc = "l206"
    /\ \/ /\ Goto(w, "l214")
          /\ UNCHANGED <<history_files, progress_queue, put_log>>
       \/ LET r == worker[w].results
              research_id == research_id_of(now, worker[w].question)
          IN /\ history_files' = FileWrite(history_files, research_id,
                    research_data(research_id, now, worker[w].question, r.answer, r.sources))
             /\ worker' = [worker EXCEPT ![w].pc = "l214",
                              ![w].results = WithId(r, research_id),
                              ![w].saves = @ + 1]
             /\ UNCHANGED <<progress_queue, put_log>>
    /\ UNCHANGED <<now, research_tasks, stream>>

\* lines 206-211.  save_research_to_history reads flask.session (line 61) before
\* it writes anything and opens the file last (line 90): when either raises,
\* no file has been written.  The worker runs in a thread of its own.
WorkerSave(w) ==
    /\ worker[w].pc = "l206"
    /\ \/ /\ Raise(w, "save_research_to_history")
          /\ UNCHANGED history_files
       \/ LET r == worker[w].results
              research_id == research_id_of(now, worker[w].question)
          IN /\ history_files' = FileWrite(history_files, research_id,
                    research_data(research_id, now, worker[w].question, r.answer, r.sources))
             /\ worker' = [worker EXCEPT ![w].pc = "l214",
                              ![w].results = WithId(r, research_id),
                              ![w].saves = @ + 1]
             /\ UNCHANGED <<progress_queue, put_log>>
    /\ UNCHANGED <<now, research_tasks, stream>>

\* mutant: the worker removes its task from the registry after its last put
WorkerCompleted_Deregisters(w) ==
    /\ worker[w].pc = "l214"
    /\ Put(w, UpdateCompleted(worker[w].results))
    /\ Goto(w, "done")
    /\ research_tasks' = RegistryPop(research_tasks, worker[w].task_id)
    /\ UNCHANGED <<now, history_files, stream>>

\* lines 214-220
WorkerCompleted(w) ==
    /\ worker[w].pc = "l214"
    /\ Put(w, UpdateCompleted(worker[w].results))
    /\ Goto(w, "done")
    /\ UNCHANGED <<now, research_tasks, history_files, stream>>

\* mutant: the except handler returns without a put
WorkerExcept_NoPut(w) ==
    /\ worker[w].pc = "l222"
    /\ Goto(w, "done")
    /\ UNCHANGED <<now, research_tasks, progress_queue, put_log, history_files, stream>>

\* mutant: the except handler persists the degraded result before its put
WorkerExcept_Saves(w) ==
    /\ worker[w].pc = "l222"
    /\ Put(w, UpdateError(worker[w].question, worker[w].e))
    /\ LET research_id == research_id_of(now, worker[w].question)
           r == error_results(worker[w].question, worker[w].e)
       IN history_files' = FileWrite(history_files, research_id,
              research_data(research_id, now, worker[w].question, r.answer, r.sources))
    /\ worker' = [worker EXCEPT ![w].pc = "done", ![w].saves = @ + 1]
    /\ UNCHANGED <<now, research_tasks, stream>>

\* lines 222-239
WorkerExcept(w) ==
    /\ worker[w].pc = "l222"
    /\ Put(w, UpdateError(worker[w].question, worker[w].e))
    /\ Goto(w, "done")
    /\ UNCHANGED <<now, research_tasks, history_files, stream>>

\* one step of the thread started at line 354
run_research_with_updates(w) ==
    \/ WorkerStart(w)
    \/ WorkerLgImport(w)
    \/ WorkerLgInit(w)
    \/ WorkerLgRun(w)
    \/ WorkerInitAgents(w)
    \/ WorkerSearching(w)
    \/ WorkerExtracting(w)
    \/ WorkerResearch(w)
    \/ WorkerDraft(w)
    \/ WorkerFactCheck(w)
    \/ WorkerFinalize(w)
    \/ WorkerSave(w)
    \/ WorkerCompleted(w)
    \/ WorkerExcept(w)

(* ---------------- GET /research_progress/<task_id> --------------------- *)
\* the next unused request slot: requests are numbered in arrival order
NextStream == CHOOSE s \in Streams : stream[s].pc = "idle" /\ \A r \in 1..(s - 1) : stream[r].pc # "idle"

\* line 371
EventConnected == [status |-> "connected"]
\* line 390
EventHeartbeat == [status |-> "heartbeat"]
\* line 396
EventStreamError(e) == [status |-> "error", message |-> e]

\* mutant: only completed ends the loop
IsTerminal_OnlyCompleted(update) == update.status = "completed"

\* line 383
IsTerminal(update) == update.status \in {"completed", "error"}

\* Attributes of the object the name `queue` denotes inside generate().  Line 367
\* assigns `queue = task["queue"]`, so the name is local to generate() and denotes
\* the task's queue.Queue object, not the module imported at line 13.
QueueObjectAttrs == {"get", "put", "empty", "full", "qsize", "get_nowait", "put_nowait",
                     "join", "task_done"}
QueueModuleAttrs == {"Queue", "Empty", "Full", "LifoQueue", "PriorityQueue", "SimpleQueue"}
queue_in_generate == QueueObjectAttrs

\* What leaves the try of line 376 when exception `raised` reaches the clause
\* `except queue.Empty:` of line 388.  Python evaluates the expression
\* queue.Empty to match the exception: the lookup itself raises AttributeError
\* when the object has no such attribute.
ExceptQueueEmpty(raised) ==
    IF "Empty" \notin queue_in_generate THEN "AttributeError"
    ELSE IF raised = "Empty" THEN "handled"
    ELSE raised

\* str(AttributeError) of the failed lookup
AttributeErrorText == <<"'Queue' object has no attribute 'Empty'">>

\* mutant: the response is built without the check of line 362
research_progress_NoCheck(task_id) ==
    /\ \E s \in Streams : stream[s].pc = "idle"
    /\ stream' = [stream EXCEPT ![NextStream] =
           [IdleStream EXCEPT !.task_id = task_id, !.pc = "created"]]
    /\ UNCHANGED <<now, research_tasks, progress_queue, put_log, worker, history_files>>

\* lines 360-363 and 405-412: the not-found check, then the response is built
\* around a generator that has not started yet
research_progress(task_id) ==
    /\ \E s \in Streams : stream[s].pc = "idle"
    /\ LET s == NextStream
       IN stream' = [stream EXCEPT ![s] =
              [IdleStream EXCEPT !.task_id = task_id,
                  !.pc = IF task_id \notin DOMAIN research_tasks THEN "notfound" ELSE "created"]]
    /\ UNCHANGED <<now, research_tasks, progress_queue, put_log, worker, history_files>>

\* lines 366-371: the server starts to iterate; research_tasks[task_id] raises
\* KeyError (outside every try of generate) when the task is gone
StreamStart(s) ==
    /\ stream[s].pc = "created"
    /\ LET tid == stream[s].task_id
       IN IF tid \in DOMAIN research_tasks
          THEN stream' = [stream EXCEPT ![s].pc = "l371",
                              ![s].queue = research_tasks[tid].queue,
                              ![s].events = <<EventConnected>>]
          ELSE stream' = [stream EXCEPT ![s].pc = "KeyError"]
    /\ UNCHANGED <<now, research_tasks, progress_queue, put_log, worker, history_files>>

\* the generator is suspended at a yield and its loop goes round again
Polling(s) ==
    \/ stream[s].pc \in {"l371", "l390"}
    \/ stream[s].pc = "l380" /\ ~IsTerminal(stream[s].events[Len(stream[s].events)])

\* lines 373-380: the server asks for the next event and queue.get returns one
StreamGet(s) ==
    /\ Polling(s)
    /\ LET q == stream[s].queue
       IN /\ progress_queue[q] # <<>>
          /\ stream' = [stream EXCEPT ![s].pc = "l380",
                            ![s].events = Append(@, Head(progress_queue[q]))]
          /\ progress_queue' = [progress_queue EXCEPT ![q] = Tail(@)]
    /\ UNCHANGED <<now, research_tasks, put_log, worker, history_files>>

\* lines 377, 388-397: queue.get finds nothing for 0.5 s and raises queue.Empty
StreamTimeout(s) ==
    /\ Polling(s)
    /\ progress_queue[stream[s].queue] = <<>>
    /\ IF ExceptQueueEmpty("Empty") = "handled"
       THEN stream' = [stream EXCEPT ![s].pc = "l390", ![s].events = Append(@, EventHeartbeat)]
       ELSE stream' = [stream EXCEPT ![s].pc = "l396",
                           ![s].events = Append(@, EventStreamError(AttributeErrorText))]
    /\ UNCHANGED <<now, research_tasks, progress_queue, put_log, worker, history_files>>

\* lines 383-386: resumed after the terminal update was sent
StreamTerminal(s) ==
    /\ stream[s].pc = "l380"
    /\ IsTerminal(stream[s].events[Len(stream[s].events)])
    /\ research_tasks' = RegistryPop(research_tasks, stream[s].task_id)
    /\ stream' = [stream EXCEPT ![s].pc = "done"]
    /\ UNCHANGED <<now, progress_queue, put_log, worker, history_files>>

\* line 397: resumed after the error event of line 396 was sent
StreamBreak(s) ==
    /\ stream[s].pc = "l396"
    /\ stream' = [stream EXCEPT ![s].pc = "done"]
    /\ UNCHANGED <<now, research_tasks, progress_queue, put_log, worker, history_files>>

\* Where generate() is after close() threw GeneratorExit at the yield it was
\* suspended at.  At line 380 the exception first reaches `except queue.Empty:`;
\* the failed lookup is an Exception, caught at line 392, and the generator
\* yields again at line 396 (close() then fails: generator ignored
\* GeneratorExit).  Elsewhere GeneratorExit reaches the handler of line 398.
AfterClose(pc) ==
    IF pc = "l380" /\ ExceptQueueEmpty("GeneratorExit") = "AttributeError" THEN "l396"
    ELSE "l398"

\* mutant: the handler logs the disconnect and leaves the registry alone
GeneratorExitHandler_NoPop(reg, tid) == reg

\* lines 398-403
GeneratorExitHandler(reg, tid) == IF tid \in DOMAIN reg THEN RegistryPop(reg, tid) ELSE reg

\* The consumer goes away while the generator is suspended at a yield: the server
\* closes the response.  stream_with_context (line 406) closes generate(), and
\* closes it once more on its way out, so a generator left at line 396 by the
\* first close reaches the handler of line 398 by the second.
StreamDisconnect(s) ==
    /\ stream[s].pc \in {"l371", "l380", "l390", "l396"}
    /\ LET first == AfterClose(stream[s].pc)
           second == IF first = "l398" THEN first ELSE AfterClose(first)
       IN /\ second = "l398"
          /\ research_tasks' = GeneratorExitHandler(research_tasks, stream[s].task_id)
    /\ stream' = [stream EXCEPT ![s].pc = "closed"]
    /\ UNCHANGED <<now, progress_queue, put_log, worker, history_files>>

\* one step of the generator of request s
generate(s) ==
    \/ StreamStart(s)
    \/ StreamGet(s)
    \/ StreamTimeout(s)
    \/ StreamTerminal(s)
    \/ StreamBreak(s)
    \/ StreamDisconnect(s)

(* --------------------------- specification ----------------------------- *)
Next ==
    \/ Tick /\ UNCHANGED <<wf, sync, save_call, ra, submission>>
    \/ (\E q \in Questions, lg \in BOOLEAN : stream_research(q, lg)) /\ UNCHANGED <<wf, sync, save_call, ra, submission>>
    \/ (\E w \in Workers : run_research_with_updates(w)) /\ UNCHANGED <<wf, sync, save_call, ra, submission>>
    \/ (\E t \in TaskIds : research_progress(t)) /\ UNCHANGED <<wf, sync, save_call, ra, submission>>
    \/ (\E s \in Streams : generate(s)) /\ UNCHANGED <<wf, sync, save_call, ra, submission>>

Spec == Init /\ [][Next]_vars

\* The web application with its scheduling: the clock advances, and a worker
\* thread that can take a step takes it (every collaborator call comes back,
\* by returning or by raising).  Clients are under no obligation: a stream may
\* never be requested, never be iterated further, or be closed.
LiveSpec ==
    /\ Spec
    /\ WF_vars(Tick /\ UNCHANGED <<wf, sync, save_call, ra, submission>>)
    /\ \A w \in Workers :
          WF_vars(run_research_with_updates(w) /\ UNCHANGED <<wf, sync, save_call, ra, submission>>)

\* the submissions and their workers alone, no stream is ever opened
WorkerNext ==
    \/ Tick /\ UNCHANGED <<wf, sync, save_call, ra, submission>>
    \/ (\E q \in Questions, lg \in BOOLEAN : stream_research(q, lg)) /\ UNCHANGED <<wf, sync, save_call, ra, submission>>
    \/ (\E w \in Workers : run_research_with_updates(w)) /\ UNCHANGED <<wf, sync, save_call, ra, submission>>

WorkerSpec == Init /\ [][WorkerNext]_vars

(* ================= the orchestrator: workflow.py ======================= *)
\* class WorkflowStep, lines 37-44
RESEARCH == "research"
DRAFT_ANSWER == "draft_answer_node"
FACT_CHECK == "fact_check_node"
FINALIZE == "finalize"
WorkflowStep_END == "end"
ERROR == "error"
\* langgraph.graph.END, imported at line 12
END == "__end__"

StageNodes == {RESEARCH, DRAFT_ANSWER, FACT_CHECK, FINALIZE}

\* the slot each stage node writes (lines 128, 164, 200, 236)
SlotOf(node) ==
    CASE node = RESEARCH -> "research_results"
      [] node = DRAFT_ANSWER -> "draft_answer"
      [] node = FACT_CHECK -> "fact_check"
      [] node = FINALIZE -> "final_answer"

\* the current_step a stage node sets when its call returned (lines 129, 165, 201, 237)
StepAfter(node) ==
    CASE node = RESEARCH -> DRAFT_ANSWER
      [] node = DRAFT_ANSWER -> FACT_CHECK
      [] node = FACT_CHECK -> FINALIZE
      [] node = FINALIZE -> WorkflowStep_END

\* the f-string prefix of a stage's error message (lines 133, 169, 205, 241)
ErrorPrefix(node) ==
    CASE node = RESEARCH -> <<"Error in research step: ">>
      [] node = DRAFT_ANSWER -> <<"Error in draft answer step: ">>
      [] node = FACT_CHECK -> <<"Error in fact check step: ">>
      [] node = FINALIZE -> <<"Error in finalize answer step: ">>

(* ------------------------- the collaborators --------------------------- *)
\* what tavily_client.search (search_utils.py line 41) can do: raise, answer
\* without a "results" key, or answer with a list of results
SearchResult(url) == [url |-> url, title |-> <<"hit">>]
TavilyOutcomes ==
    {[raises |-> TRUE], [answer |-> <<"tavily answer">>], [results |-> <<>>],
     [results |-> <<SearchResult("u1")>>],
     [results |-> <<SearchResult("u1"), SearchResult("u2")>>]}

\* what requests.get and the parse of the page (web_utils.py lines 32-55) can
\* do: raise, or give the page's title and text
PageOutcomes ==
    {[raises |-> TRUE],
     [title |-> <<"page title">>, text |-> <<"page text">>],
     [title |-> <<"Error handling in Python">>, text |-> <<"page text">>],
     [title |-> <<"page title">>, text |-> <<>>]}

\* what chain.invoke can do: raise, or answer with a content that may be empty
LlmOutcomes == {[raises |-> TRUE], [content |-> <<"llm text">>], [content |-> <<>>]}

\* the pieces of text of this model that contain the substring "Error"
ErrorPieces ==
    {"Error", "Error handling in Python", "Error extracting content: ",
     "Error in summarization: ", "Error in answer drafting: ",
     "Error in fact checking: "}

\* "Error" in text
HasError(text) == \E i \in 1..Len(text) : text[i] \in ErrorPieces

\* search_utils.py lines 23-58: the results, or [] when the call raises or the
\* response has no "results"
search_web(query, tavily) ==
    IF "raises" \in DOMAIN tavily
    THEN <<>>
    ELSE IF "results" \in DOMAIN tavily THEN tavily.results ELSE <<>>

\* search_utils.py lines 60-81
generate_search_queries(question) ==
    SubSeq(<<<<question>>, <<"latest information about ", question>>,
             <<"recent developments in ", question>>>>, 1, 3)

\* mutant: a failed fetch is reported under the title "Unknown"
extract_content_NoSentinel(url, page) ==
    IF "raises" \in DOMAIN page
    THEN [url |-> url, title |-> <<"Unknown">>,
          content |-> <<"Error extracting content: ">> \o ExcText("requests.get")]
    ELSE [url |-> url,
          title |-> IF page.title = <<>> THEN <<"Unknown">> ELSE page.title,
          content |-> page.text]

\* web_utils.py lines 15-68: the page, or the record with the sentinel title
extract_content(url, page) ==
    IF "raises" \in DOMAIN page
    THEN [url |-> url, title |-> <<"Error">>,
          content |-> <<"Error extracting content: ">> \o ExcText("requests.get")]
    ELSE [url |-> url,
          title |-> IF page.title = <<>> THEN <<"Unknown">> ELSE page.title,
          content |-> page.text]

(* ----------------------- the agents, in detail ------------------------- *)
\* research_agent.py lines 91-140: the LLM's content, or the error text
summarize_content(content_list, question, llm) ==
    IF "raises" \in DOMAIN llm
    THEN <<"Error in summarization: ">> \o ExcText("chain.invoke")
    ELSE llm.content

\* research_agent.py lines 55-58: the results of the queries, in order
RECURSIVE all_results(_, _)
all_results(search_queries, searches) ==
    IF search_queries = <<>>
    THEN <<>>
    ELSE search_web(Head(search_queries), Head(searches))
            \o all_results(Tail(search_queries), Tail(searches))

\* research_agent.py lines 65-68
unique_urls(results) ==
    {results[i].url : i \in {j \in 1..Len(results) : "url" \in DOMAIN results[j]}}

\* list(a_set): the elements in one of the orders the set can be iterated in
ListsOf(S) ==
    {order \in [1..Cardinality(S) -> S] :
        \A i, j \in 1..Cardinality(S) : order[i] = order[j] => i = j}

\* seq[:n]
Take(seq, n) == SubSeq(seq, 1, IF Len(seq) < n THEN Len(seq) ELSE n)

\* mutant: every extraction is kept
Kept_All(content) == TRUE

\* research_agent.py line 73: the extraction is kept
Kept(content) == content.content # <<>> /\ ~HasError(content.title)

\* research_agent.py lines 70-89, for one iteration order of unique_urls
ResearchFrom(question, order, pages, llm) ==
    LET urls == Take(order, 5)
        contents == [i \in 1..Len(urls) |-> extract_content(urls[i], pages[urls[i]])]
        content_list == SelectSeq(contents, Kept)
        sources == [i \in 1..Len(content_list) |->
                       [url |-> content_list[i].url, title |-> content_list[i].title]]
        summary == IF content_list # <<>>
                   THEN summarize_content(content_list, question, llm)
                   ELSE <<"No relevant content found.">>
    IN  [question |-> question, summary |-> summary, sources |-> sources,
         raw_content |-> content_list]

\* research_agent.py lines 39-89: what conduct_research can return.  searches:
\* the outcome of the search of each query; pages: the outcome of the fetch of
\* each url; llm: the outcome of the summarization call
ResearchAgent_conduct_research(question, searches, pages, llm) ==
    LET search_queries == generate_search_queries(question)
        found == unique_urls(all_results(search_queries, searches))
    IN  {ResearchFrom(question, order, pages, llm) : order \in ListsOf(found)}

\* answer_agent.py lines 35-118
AnswerAgent_draft_answer(research_results, llm) ==
    LET question == Get(research_results, "question", "")
        summary == Get(research_results, "summary", <<>>)
        sources == Get(research_results, "sources", <<>>)
    IN  IF summary = <<>>
        THEN [question |-> question,
              answer |-> <<"Insufficient research data to provide an answer.">>,
              sources |-> sources]
        ELSE IF "raises" \in DOMAIN llm
             THEN [question |-> question,
                   answer |-> <<"Error in answer drafting: ">> \o ExcText("chain.invoke"),
                   sources |-> sources]
             ELSE [question |-> question, answer |-> llm.content, sources |-> sources]

\* answer_agent.py lines 120-197
AnswerAgent_fact_check(draft, research_results, llm) ==
    LET question == Get(draft, "question", "")
        answer == Get(draft, "answer", <<>>)
        sources == Get(draft, "sources", <<>>)
        raw_content == Get(research_results, "raw_content", <<>>)
    IN  IF answer = <<>> \/ raw_content = <<>>
        THEN draft
        ELSE [question |-> question, answer |-> answer,
              fact_check |-> IF "raises" \in DOMAIN llm
                             THEN <<"Error in fact checking: ">> \o ExcText("chain.invoke")
                             ELSE llm.content,
              sources |-> sources]

\* answer_agent.py lines 199-282
AnswerAgent_finalize_answer(fact_checked_answer, llm) ==
    LET question == Get(fact_checked_answer, "question", "")
        answer == Get(fact_checked_answer, "answer", <<>>)
        fc == Get(fact_checked_answer, "fact_check", <<>>)
        sources == Get(fact_checked_answer, "sources", <<>>)
    IN  IF HasError(fc) \/ fc = <<>>
        THEN [question |-> question, answer |-> answer, sources |-> sources]
        ELSE [question |-> question,
              answer |-> IF "raises" \in DOMAIN llm THEN answer ELSE llm.content,
              sources |-> sources]

(* ------------------------- the agents' calls --------------------------- *)
\* ResearchAgent.conduct_research returning (research_agent.py lines 84-89)
conduct_research(question) ==
    {[question |-> question, summary |-> <<"summary">>, sources |-> src, raw_content |-> src] :
        src \in SourceLists}

\* AnswerAgent.draft_answer with an LLM that answers (answer_agent.py lines 47-57, 106-110)
draft_answer(research_results) ==
    AnswerAgent_draft_answer(research_results, [content |-> <<"draft answer">>])

\* AnswerAgent.fact_check with an LLM that answers (answer_agent.py lines 133-140, 183-188)
fact_check(draft, research_results) ==
    AnswerAgent_fact_check(draft, research_results, [content |-> <<"fact check">>])

\* AnswerAgent.finalize_answer with an LLM that answers (answer_agent.py lines 211-222, 270-274)
finalize_answer(fact_checked_answer) ==
    AnswerAgent_finalize_answer(fact_checked_answer, [content |-> <<"final answer">>])

\* what the agent call of a stage node can return on the state the node receives
\* (lines 125, 161, 197, 233)
AgentCall(node, state) ==
    CASE node = RESEARCH -> conduct_research(state.question)
      [] node = DRAFT_ANSWER -> {draft_answer(state.research_results)}
      [] node = FACT_CHECK -> {fact_check(state.draft_answer, state.research_results)}
      [] node = FINALIZE -> {finalize_answer(state.fact_check)}

(* --------------------------- the graph nodes --------------------------- *)
\* mutant: a stage node that returned also resets the research slot
NodeReturned_ResetsResearch(node, state, r) ==
    [state EXCEPT !.research_results = IF node = RESEARCH THEN r ELSE EmptyDict,
                  ![SlotOf(node)] = r, !.current_step = StepAfter(node)]

\* a stage node whose agent call returned r (lines 128-131, 164-167, 200-203, 236-239)
NodeReturned(node, state, r) ==
    [state EXCEPT ![SlotOf(node)] = r, !.current_step = StepAfter(node)]

\* mutant: the handler starts a new errors list
NodeRaised_NewList(node, state, e) ==
    [state EXCEPT !.errors = <<ErrorPrefix(node) \o e>>, !.current_step = ERROR]

\* a stage node whose agent call raised e (lines 132-145, 168-181, 204-217, 240-253)
NodeRaised(node, state, e) ==
    [state EXCEPT !.errors = @ \o <<ErrorPrefix(node) \o e>>, !.current_step = ERROR]

\* the states a stage node can return: _conduct_research, _draft_answer,
\* _fact_check, _finalize_answer
StageNode(node, state) ==
    {NodeReturned(node, state, r) : r \in AgentCall(node, state)}
        \cup {NodeRaised(node, state, ExcText(node))}

\* lines 255-281: a copy of the state, unchanged
_handle_error(state) == state

\* the states node can return when it is run on state
NodeOutcomes(node, state) ==
    IF node = ERROR THEN {_handle_error(state)} ELSE StageNode(node, state)

\* lines 310-316
step_sequence == <<RESEARCH, DRAFT_ANSWER, FACT_CHECK, FINALIZE, WorkflowStep_END>>

\* lines 295-328; list.index raises ValueError for a step outside the sequence
_determine_next_step_after_error(state) ==
    LET current_step == Get(state, "current_step", RESEARCH)
    IN  IF \E i \in 1..Len(step_sequence) : step_sequence[i] = current_step
        THEN LET current_index == CHOOSE i \in 1..Len(step_sequence) :
                                      step_sequence[i] = current_step
                 next_index == current_index + 1
             IN  IF next_index <= Len(step_sequence)
                 THEN step_sequence[next_index]
                 ELSE WorkflowStep_END
        ELSE RESEARCH

\* the mapping of the conditional edges, lines 93-99
path_map(step) == IF step = WorkflowStep_END THEN END ELSE step

\* mutant: the research node has an edge back to itself
Edges_Retry ==
    {<<RESEARCH, RESEARCH>>, <<RESEARCH, DRAFT_ANSWER>>, <<DRAFT_ANSWER, FACT_CHECK>>,
     <<FACT_CHECK, FINALIZE>>, <<FINALIZE, END>>,
     <<RESEARCH, ERROR>>, <<DRAFT_ANSWER, ERROR>>,
     <<FACT_CHECK, ERROR>>, <<FINALIZE, ERROR>>}

\* add_edge calls, lines 84-87 and 103-106
Edges ==
    {<<RESEARCH, DRAFT_ANSWER>>, <<DRAFT_ANSWER, FACT_CHECK>>,
     <<FACT_CHECK, FINALIZE>>, <<FINALIZE, END>>,
     <<RESEARCH, ERROR>>, <<DRAFT_ANSWER, ERROR>>,
     <<FACT_CHECK, ERROR>>, <<FINALIZE, ERROR>>}

\* the nodes a node that returned out triggers: its edges, and for the error
\* node the conditional edge of lines 90-100
Successors(node, out) ==
    ({e[2] : e \in {d \in Edges : d[1] = node}}
        \cup (IF node = ERROR
              THEN {path_map(_determine_next_step_after_error(out))}
              ELSE {})) \ {END}

(* ----------------------- DeepResearchWorkflow.run ---------------------- *)
\* lines 343-351
InitialState(question) ==
    [question |-> question, research_results |-> EmptyDict, draft_answer |-> EmptyDict,
     fact_check |-> EmptyDict, final_answer |-> EmptyDict,
     current_step |-> RESEARCH, errors |-> <<>>]

\* lines 330-355: run is called; the graph starts at its entry point (line 81)
run(question) ==
    /\ wf.pc = "idle"
    /\ wf' = [IdleRun EXCEPT !.pc = "l358", !.question = question,
                             !.initial = InitialState(question),
                             !.state = InitialState(question),
                             !.active = {RESEARCH}]

\* one returned state for every node of the superstep, all run on the same state
RECURSIVE Outs(_, _)
Outs(active, state) ==
    IF active = {}
    THEN {EmptyDict}
    ELSE LET n == CHOOSE m \in active : TRUE
         IN  {[m \in active |-> IF m = n THEN o ELSE f[m]] :
                 f \in Outs(active \ {n}, state), o \in NodeOutcomes(n, state)}

\* what graph.stream yields for a superstep: the returned states keyed by node name
StreamOutput(active, outs) == [n \in active |-> outs[n]]

\* lines 363-364, the body of the for loop
LoopBody(final_state, output) ==
    IF "state" \in DOMAIN output THEN output["state"] ELSE final_state

\* history: the slot values the stage calls of this superstep returned
Produced(produced, active, outs) ==
    [k \in DOMAIN produced |->
        IF \E n \in active \cap StageNodes : SlotOf(n) = k /\ outs[n].current_step # ERROR
        THEN outs[CHOOSE n \in active \cap StageNodes : SlotOf(n) = k][k]
        ELSE produced[k]]

\* history: the stages whose call raised in this superstep
RaisedIn(active, outs) == {n \in active \cap StageNodes : outs[n].current_step = ERROR}

\* line 358, one superstep of the compiled graph whose writes are applied: every
\* scheduled node runs on the current state, one returned state becomes the
\* graph's state, the output is handed to the loop body, and the nodes the
\* edges name are scheduled.  With a single scheduled node this is the only
\* outcome; with several it is the outcome of a state channel that keeps one
\* of the values written to it.
SuperstepApplied ==
    /\ wf.pc = "l358"
    /\ wf.active # {}
    /\ wf.step < MaxSupersteps
    /\ \E outs \in Outs(wf.active, wf.state), w \in wf.active :
          wf' = [wf EXCEPT !.state = outs[w],
                           !.active = UNION {Successors(n, outs[n]) : n \in wf.active},
                           !.step = @ + 1,
                           !.final_state = LoopBody(@, StreamOutput(wf.active, outs)),
                           !.produced = Produced(@, wf.active, outs),
                           !.raised = @ \cup RaisedIn(wf.active, outs),
                           !.ran = Append(@, wf.active)]

\* str(e) of the exceptions the library raises inside graph.stream
InvalidUpdateError == <<"At key 'question': Can receive only one value per step.">>
GraphRecursionError == <<"Recursion limit reached without hitting a stop condition.">>

\* mutant: run has no catch-all, the library's exception leaves run
SuperstepRejected_Propagates ==
    /\ wf.pc = "l358"
    /\ Cardinality(wf.active) > 1
    /\ wf.step < MaxSupersteps
    /\ \E outs \in Outs(wf.active, wf.state) :
          wf' = [wf EXCEPT !.pc = "raised",
                           !.exception = InvalidUpdateError,
                           !.produced = Produced(@, wf.active, outs),
                           !.raised = @ \cup RaisedIn(wf.active, outs),
                           !.ran = Append(@, wf.active)]

\* line 358, a superstep in which several nodes return the state: the default
\* state channel takes one value per step, graph.stream raises and the
\* catch-all of lines 394-402 returns
SuperstepRejected ==
    /\ wf.pc = "l358"
    /\ Cardinality(wf.active) > 1
    /\ wf.step < MaxSupersteps
    /\ \E outs \in Outs(wf.active, wf.state) :
          wf' = [wf EXCEPT !.pc = "returned",
                           !.exception = InvalidUpdateError,
                           !.result = run_error(wf.question, InvalidUpdateError),
                           !.produced = Produced(@, wf.active, outs),
                           !.raised = @ \cup RaisedIn(wf.active, outs),
                           !.ran = Append(@, wf.active)]

\* line 358, the graph is still scheduling nodes at the library's step limit:
\* graph.stream raises and the catch-all of lines 394-402 returns
RecursionLimit ==
    /\ wf.pc = "l358"
    /\ wf.active # {}
    /\ wf.step = MaxSupersteps
    /\ wf' = [wf EXCEPT !.pc = "returned",
                        !.exception = GraphRecursionError,
                        !.result = run_error(wf.question, GraphRecursionError)]

\* "not x" for None and for a dict
Falsy(x) == x = NoneValue \/ x = EmptyDict

\* lines 366-392
run_return(question, final_state, state) ==
    LET fs == IF Falsy(final_state) THEN state ELSE final_state
    IN  IF "final_answer" \in DOMAIN fs /\ ~Falsy(fs.final_answer)
        THEN run_success(question, fs.final_answer)
        ELSE IF "draft_answer" \in DOMAIN fs /\ ~Falsy(fs.draft_answer)
             THEN run_partial(question, fs.draft_answer)
             ELSE run_failed(question, Get(fs, "errors", <<>>))

\* lines 358-392: the stream is exhausted, run returns
StreamEnds ==
    /\ wf.pc = "l358"
    /\ wf.active = {}
    /\ wf' = [wf EXCEPT !.pc = "returned",
                        !.result = run_return(wf.question, wf.final_state, wf.initial)]

\* one call of run and the supersteps of its graph
OrchNext ==
    \/ (\E q \in Questions : run(q)) /\ UNCHANGED <<webvars, sync, save_call, ra, submission>>
    \/ SuperstepApplied /\ UNCHANGED <<webvars, sync, save_call, ra, submission>>
    \/ SuperstepRejected /\ UNCHANGED <<webvars, sync, save_call, ra, submission>>
    \/ RecursionLimit /\ UNCHANGED <<webvars, sync, save_call, ra, submission>>
    \/ StreamEnds /\ UNCHANGED <<webvars, sync, save_call, ra, submission>>

OrchSpec == Init /\ [][OrchNext]_vars

\* a run that was called goes on: the calling thread is not stopped
OrchLiveSpec == OrchSpec /\ WF_vars(OrchNext)

(* ============ the synchronous runner: run_research =================== *)
\* app.py lines 241-305 (entry "app") and simple_main.py lines 32-75 (entry
\* "simple_main", which has no LangGraph branch and no history save)
Entries == {"app", "simple_main"}

\* the slots of the runner that hold a stage result
SyncHave == {k \in DOMAIN NoSlots : sync[k] # EmptyDict}

\* history: a stage call is made now
Computing(stage) == Append(sync.computed, [stage |-> stage, have |-> SyncHave])

\* mutant: the direct runner starts with the draft
run_research_DraftFirst(entry, question, use_langgraph) ==
    /\ sync.pc = "idle"
    /\ use_langgraph => entry = "app"
    /\ sync' = [IdleSync EXCEPT !.pc = IF use_langgraph THEN "l257" ELSE "l273",
                                !.entry = entry, !.question = question,
                                !.use_langgraph = use_langgraph]
    /\ UNCHANGED history_files

\* app.py lines 252-264, simple_main.py lines 42-47: the call and the constructors
run_research(entry, question, use_langgraph) ==
    /\ sync.pc = "idle"
    /\ use_langgraph => entry = "app"
    /\ sync' = [IdleSync EXCEPT !.pc = IF use_langgraph THEN "l257" ELSE "l270",
                                !.entry = entry, !.question = question,
                                !.use_langgraph = use_langgraph]
    /\ UNCHANGED history_files

\* a stage call raises: control goes to the handler of app.py line 296,
\* simple_main.py line 67
SyncRaise(stage) ==
    sync' = [sync EXCEPT !.pc = "l296", !.e = ExcText(stage),
                         !.computed = Computing(stage)]

\* app.py lines 257-263: import, constructor and workflow.run, which has a
\* catch-all of its own
SyncLangGraph ==
    /\ sync.pc = "l257"
    /\ \/ sync' = [sync EXCEPT !.pc = "l296", !.e = ExcText("DeepResearchWorkflow")]
       \/ \E r \in RunOutcomes(sync.question) :
             sync' = [sync EXCEPT !.pc = "l289", !.results = r]
    /\ UNCHANGED history_files

\* app.py line 270, simple_main.py line 50
SyncResearch ==
    /\ sync.pc = "l270"
    /\ \/ SyncRaise("conduct_research")
       \/ \E searches \in [1..3 -> TavilyOutcomes] :
             LET found == unique_urls(all_results(generate_search_queries(sync.question),
                                                  searches))
             IN  \E pages \in [found -> PageOutcomes], llm \in LlmOutcomes :
                   \E r \in ResearchAgent_conduct_research(sync.question, searches,
                                                            pages, llm) :
                      sync' = [sync EXCEPT !.pc = "l273", !.research_results = r,
                                  !.searches = searches, !.pages = pages,
                                  !.llms = IF r.raw_content # <<>> THEN Append(@, llm) ELSE @,
                                  !.computed = Computing("conduct_research")]
    /\ UNCHANGED history_files

\* history: llm is logged when the stage reaches its chain.invoke, that is
\* when its result depends on what the LLM does
LlmLog(log, llm, outcomes) == IF Cardinality(outcomes) > 1 THEN Append(log, llm) ELSE log

\* app.py line 273, simple_main.py line 53
SyncDraft ==
    /\ sync.pc = "l273"
    /\ \/ SyncRaise("draft_answer")
       \/ \E llm \in LlmOutcomes :
             sync' = [sync EXCEPT !.pc = "l276",
                         !.draft_answer = AnswerAgent_draft_answer(sync.research_results, llm),
                         !.llms = LlmLog(@, llm,
                                     {AnswerAgent_draft_answer(sync.research_results, l) :
                                         l \in LlmOutcomes}),
                         !.computed = Computing("draft_answer")]
    /\ UNCHANGED history_files

\* app.py line 276, simple_main.py line 56
SyncFactCheck ==
    /\ sync.pc = "l276"
    /\ \/ SyncRaise("fact_check")
       \/ \E llm \in LlmOutcomes :
             sync' = [sync EXCEPT !.pc = "l279",
                         !.fact_check = AnswerAgent_fact_check(sync.draft_answer,
                                             sync.research_results, llm),
                         !.llms = LlmLog(@, llm,
                                     {AnswerAgent_fact_check(sync.draft_answer,
                                          sync.research_results, l) : l \in LlmOutcomes}),
                         !.computed = Computing("fact_check")]
    /\ UNCHANGED history_files

\* app.py lines 281-286, simple_main.py lines 61-66
sync_results(question, final_answer) ==
    [question |-> question,
     answer |-> Get(final_answer, "answer", <<"No answer generated.">>),
     sources |-> Get(final_answer, "sources", <<>>),
     status |-> "success"]

\* app.py lines 279-286, simple_main.py lines 59-66 (where the record is returned)
SyncFinalize ==
    /\ sync.pc = "l279"
    /\ \/ SyncRaise("finalize_answer")
       \/ \E llm \in LlmOutcomes :
             LET final_answer == AnswerAgent_finalize_answer(sync.fact_check, llm)
             IN  sync' = [sync EXCEPT
                         !.pc = IF sync.entry = "app" THEN "l289" ELSE "returned",
                         !.final_answer = final_answer,
                         !.results = sync_results(sync.question, final_answer),
                         !.llms = LlmLog(@, llm,
                                     {AnswerAgent_finalize_answer(sync.fact_check, l) :
                                         l \in LlmOutcomes}),
                         !.computed = Computing("finalize_answer")]
    /\ UNCHANGED history_files

\* app.py lines 289-296: the save runs in the request's thread; it raises when
\* the session or the file cannot be written, and then nothing was written
SyncSave ==
    /\ sync.pc = "l289"
    /\ \/ /\ sync' = [sync EXCEPT !.pc = "l296", !.e = ExcText("save_research_to_history")]
          /\ UNCHANGED history_files
       \/ LET r == sync.results
              answer == Get(r, "answer", <<"No answer generated.">>)
              sources == Get(r, "sources", <<>>)
              research_id == research_id_of(now, sync.question)
          IN  /\ history_files' = FileWrite(history_files, research_id,
                     research_data(research_id, now, sync.question, answer, sources))
              /\ sync' = [sync EXCEPT !.pc = "returned", !.saved = TRUE,
                                      !.results = WithId(r, research_id)]

\* app.py lines 296-305, simple_main.py lines 67-75
SyncExcept ==
    /\ sync.pc = "l296"
    /\ sync' = [sync EXCEPT !.pc = "returned", !.results = run_error(sync.question, sync.e)]
    /\ UNCHANGED history_files

\* one call of a synchronous runner
SyncNext ==
    \/ (\E en \in Entries, q \in Questions, lg \in BOOLEAN : run_research(en, q, lg))
          /\ UNCHANGED <<now, research_tasks, progress_queue, put_log, worker, stream, wf, save_call, ra, submission>>
    \/ SyncLangGraph /\ UNCHANGED <<now, research_tasks, progress_queue, put_log, worker, stream, wf, save_call, ra, submission>>
    \/ SyncResearch /\ UNCHANGED <<now, research_tasks, progress_queue, put_log, worker, stream, wf, save_call, ra, submission>>
    \/ SyncDraft /\ UNCHANGED <<now, research_tasks, progress_queue, put_log, worker, stream, wf, save_call, ra, submission>>
    \/ SyncFactCheck /\ UNCHANGED <<now, research_tasks, progress_queue, put_log, worker, stream, wf, save_call, ra, submission>>
    \/ SyncFinalize /\ UNCHANGED <<now, research_tasks, progress_queue, put_log, worker, stream, wf, save_call, ra, submission>>
    \/ SyncSave /\ UNCHANGED <<now, research_tasks, progress_queue, put_log, worker, stream, wf, save_call, ra, submission>>
    \/ SyncExcept /\ UNCHANGED <<now, research_tasks, progress_queue, put_log, worker, stream, wf, save_call, ra, submission>>

SyncSpec == Init /\ [][SyncNext]_vars

(* ======================= one pipeline run ============================== *)
\* one run of the pipeline, on the orchestrator (workflow.run) or on the direct
\* path (run_research without LangGraph, simple_main)
PipelineNext ==
    \/ sync.pc = "idle" /\ OrchNext
    \/ wf.pc = "idle" /\ SyncNext

PipelineSpec == Init /\ [][PipelineNext]_vars

(* ====== conduct_research call by call: research_agent.py 39-89 ========= *)
\* what tavily_client.search can do for the i-th query: raise, or answer with
\* two results; the queries share results or each finds pages of its own
SearchOutcomes(i) ==
    {[raises |-> TRUE],
     [results |-> <<SearchResult("u1"), SearchResult("u2")>>]}
        \cup (CASE i = 2 -> {[results |-> <<SearchResult("u3"), SearchResult("u4")>>]}
                [] i = 3 -> {[results |-> <<SearchResult("u5"), SearchResult("u6")>>]}
                [] OTHER -> {})

\* mutant: no limit, every url the searches can find is extracted
UrlLimit_None == Cardinality({"u1", "u2", "u3", "u4", "u5", "u6"})

\* line 71, the slice [:5]
UrlLimit == 5

\* the number of urls list(unique_urls)[:5] holds
UrlsToExtract ==
    IF Cardinality(ra.unique_urls) < UrlLimit THEN Cardinality(ra.unique_urls) ELSE UrlLimit

\* lines 39-54: the call, and the queries are generated
ra_conduct_research(question) ==
    /\ ra.pc = "idle"
    /\ ra' = [IdleResearch EXCEPT !.pc = "l56", !.question = question,
                                  !.search_queries = generate_search_queries(question)]

\* line 57: search_web(query) is called for the next query of the loop
SearchCalled ==
    /\ ra.pc = "l56"
    /\ ra.i <= Len(ra.search_queries)
    /\ ra' = [ra EXCEPT !.pc = "l57", !.in_flight = @ \cup {<<"search_web", ra.i>>}]

\* lines 57-58: the search comes back, its results are appended
SearchReturned ==
    /\ ra.pc = "l57"
    /\ \E tavily \in SearchOutcomes(ra.i) :
          ra' = [ra EXCEPT !.pc = "l56", !.i = @ + 1,
                    !.all_results = @ \o search_web(ra.search_queries[ra.i], tavily),
                    !.in_flight = @ \ {<<"search_web", ra.i>>}]

\* lines 56, 61-68: the search loop is over, the urls are collected
UrlsCollected ==
    /\ ra.pc = "l56"
    /\ ra.i > Len(ra.search_queries)
    /\ ra' = [ra EXCEPT !.pc = "l71", !.unique_urls = unique_urls(ra.all_results)]

\* lines 71-72: extract_content(url) is called for the next url of
\* list(unique_urls)[:5]; a set is listed in an order of its own, so the next
\* url is any url that has not had its turn
ExtractCalled ==
    /\ ra.pc = "l71"
    /\ Cardinality(ra.extracted) < UrlsToExtract
    /\ \E url \in ra.unique_urls \ ra.extracted :
          ra' = [ra EXCEPT !.pc = "l72", !.url = url,
                           !.in_flight = @ \cup {<<"extract_content", url>>}]

\* lines 72-75: the extraction comes back and is kept or dropped
ExtractReturned ==
    /\ ra.pc = "l72"
    /\ \E page \in PageOutcomes :
          LET content == extract_content(ra.url, page)
          IN  ra' = [ra EXCEPT !.pc = "l71", !.extracted = @ \cup {ra.url},
                        !.in_flight = @ \ {<<"extract_content", ra.url>>},
                        !.content_list = IF Kept(content) THEN Append(@, content) ELSE @,
                        !.sources = IF Kept(content)
                                    THEN Append(@, [url |-> ra.url, title |-> content.title])
                                    ELSE @]

\* lines 77-79: the extraction loop is over and the LLM is called for the summary
SummarizeCalled ==
    /\ ra.pc = "l71"
    /\ Cardinality(ra.extracted) = UrlsToExtract
    /\ ra.content_list # <<>>
    /\ ra' = [ra EXCEPT !.pc = "l79", !.in_flight = @ \cup {<<"chain.invoke", 1>>}]

\* lines 79, 84-89: the summary comes back, conduct_research returns
SummarizeReturned ==
    /\ ra.pc = "l79"
    /\ \E llm \in LlmOutcomes :
          ra' = [ra EXCEPT !.pc = "returned",
                    !.summary = summarize_content(ra.content_list, ra.question, llm),
                    !.in_flight = @ \ {<<"chain.invoke", 1>>}]

\* lines 80-89: nothing was kept, conduct_research returns with the marker
NothingToSummarize ==
    /\ ra.pc = "l71"
    /\ Cardinality(ra.extracted) = UrlsToExtract
    /\ ra.content_list = <<>>
    /\ ra' = [ra EXCEPT !.pc = "returned", !.summary = <<"No relevant content found.">>]

\* one call of conduct_research
ResearchNext ==
    \/ (\E q \in Questions : ra_conduct_research(q)) /\ UNCHANGED <<webvars, wf, sync, save_call, submission>>
    \/ SearchCalled /\ UNCHANGED <<webvars, wf, sync, save_call, submission>>
    \/ SearchReturned /\ UNCHANGED <<webvars, wf, sync, save_call, submission>>
    \/ UrlsCollected /\ UNCHANGED <<webvars, wf, sync, save_call, submission>>
    \/ ExtractCalled /\ UNCHANGED <<webvars, wf, sync, save_call, submission>>
    \/ ExtractReturned /\ UNCHANGED <<webvars, wf, sync, save_call, submission>>
    \/ SummarizeCalled /\ UNCHANGED <<webvars, wf, sync, save_call, submission>>
    \/ SummarizeReturned /\ UNCHANGED <<webvars, wf, sync, save_call, submission>>
    \/ NothingToSummarize /\ UNCHANGED <<webvars, wf, sync, save_call, submission>>

ResearchSpec == Init /\ [][ResearchNext]_vars

(* ============ the history store: app.py lines 65-101 =================== *)
\* what a request hands to save_research_to_history
SavedAnswers == {<<"final answer">>, <<"llm text">>}
SavedSources == {<<>>, <<[url |-> "u1", title |-> "t1"]>>}

\* the file just opened with mode 'w' (line 90): it exists and is empty
EmptyFile == [empty |-> TRUE]

\* lines 67-87: the session is read (it raises outside a request context), the
\* clock is read once, to the second, and the id is built from it and the
\* question's hash
save_research_to_history(c, question, answer, sources) ==
    /\ save_call[c].pc = "idle"
    /\ \/ save_call' = [save_call EXCEPT ![c] =
              [@ EXCEPT !.pc = "raised", !.question = question,
                        !.answer = answer, !.sources = sources]]
       \/ save_call' = [save_call EXCEPT ![c] =
              [pc |-> "l90", question |-> question, answer |-> answer,
               sources |-> sources, timestamp |-> now,
               research_id |-> research_id_of(now, question)]]
    /\ UNCHANGED history_files

\* line 90: open(f"web/research_history/{research_id}.json", 'w') creates the
\* file or empties the one that is there; it raises when it cannot
SaveOpen(c) ==
    /\ save_call[c].pc = "l90"
    /\ \/ /\ save_call' = [save_call EXCEPT ![c].pc = "raised"]
          /\ UNCHANGED history_files
       \/ /\ history_files' = FileWrite(history_files, save_call[c].research_id, EmptyFile)
          /\ save_call' = [save_call EXCEPT ![c].pc = "l91"]

\* lines 91-93: json.dump(research_data, f), the file is closed, the id returned.
\* The data are strings and lists of dicts of strings, which json.load gives
\* back equal, so a file is kept as the data dumped into it.
SaveDump(c) ==
    /\ save_call[c].pc = "l91"
    /\ LET sc == save_call[c]
       IN history_files' = FileWrite(history_files, sc.research_id,
              research_data(sc.research_id, sc.timestamp, sc.question, sc.answer, sc.sources))
    /\ save_call' = [save_call EXCEPT ![c].pc = "returned"]

\* lines 95-101: the file's content, None when there is no such file; json.load
\* of an empty file raises JSONDecodeError, which line 100 does not catch
get_research_by_id(research_id) ==
    IF research_id \notin DOMAIN history_files THEN NoneValue
    ELSE IF history_files[research_id] = EmptyFile THEN [raises |-> TRUE]
    ELSE history_files[research_id]

\* request threads saving to the history while the clock runs
HistoryNext ==
    \/ Tick /\ UNCHANGED <<wf, sync, save_call, ra, submission>>
    \/ (\E c \in Savers, q \in Questions, a \in SavedAnswers, srcs \in SavedSources :
           save_research_to_history(c, q, a, srcs))
          /\ UNCHANGED <<now, research_tasks, progress_queue, put_log, worker, stream, wf, sync, ra, submission>>
    \/ (\E c \in Savers : SaveOpen(c))
          /\ UNCHANGED <<now, research_tasks, progress_queue, put_log, worker, stream, wf, sync, ra, submission>>
    \/ (\E c \in Savers : SaveDump(c))
          /\ UNCHANGED <<now, research_tasks, progress_queue, put_log, worker, stream, wf, sync, ra, submission>>

HistorySpec == Init /\ [][HistoryNext]_vars

(* ========== the submission routes: app.py lines 312-357 ================ *)
\* what a client posts as the question: a question, or nothing
PostedQuestions == Questions \cup {""}

\* one entry of the submission log: the route, the posted question, the status
\* code of the response, and for an accepted /stream_research the task id of
\* the response and the queue handed to the worker thread
Handled(route, question, code, task_id, queue) ==
    [route |-> route, question |-> question, code |-> code, task_id |-> task_id, queue |-> queue]

\* the /stream_research submissions that started a worker, as positions of the log
AcceptedAsync ==
    {i \in 1..Len(submission) : submission[i].route = "stream_research" /\ submission[i].code = 200}

\* run_research as the route calls it, lines 241-303, from call to return: an
\* exception in it, the save included, is answered with the error record and
\* nothing is stored; otherwise the results are stored under the id the save makes
RunResearchReturns(question, use_langgraph) ==
    \/ UNCHANGED history_files
    \/ \E r \in IF use_langgraph THEN RunOutcomes(question) ELSE FinalAnswers(question) :
          LET research_id == research_id_of(now, question)
          IN  history_files' = FileWrite(history_files, research_id,
                  research_data(research_id, now, question, r.answer, r.sources))

\* mutant: POST /research without the check of the question
research_NoCheck(question, use_langgraph) ==
    /\ Len(submission) < MaxRequests
    /\ RunResearchReturns(question, use_langgraph)
    /\ submission' = Append(submission, Handled("research", question, 200, <<>>, 0))
    /\ UNCHANGED <<now, research_tasks, progress_queue, put_log, worker, stream, wf, sync,
                   save_call, ra>>

\* POST /research, lines 312-324: an empty question is answered with 400,
\* any other question is handed to run_research and its results are returned
research_route(question, use_langgraph) ==
    /\ Len(submission) < MaxRequests
    /\ IF question = ""
       THEN /\ submission' = Append(submission, Handled("research", question, 400, <<>>, 0))
            /\ UNCHANGED history_files
       ELSE /\ RunResearchReturns(question, use_langgraph)
            /\ submission' = Append(submission, Handled("research", question, 200, <<>>, 0))
    /\ UNCHANGED <<now, research_tasks, progress_queue, put_log, worker, stream, wf, sync,
                   save_call, ra>>

\* line 337: the task id of a submission
stream_task_id(question) == task_id_of(now, question)

\* POST /stream_research, lines 326-357: an empty question is answered with
\* 400; otherwise a task id and a new queue are made, the registry entry is
\* stored under the id, the worker thread is started with the queue and the id
\* is returned.  The thread itself is run_research_with_updates.
stream_research_route(question, use_langgraph) ==
    /\ Len(submission) < MaxRequests
    /\ IF question = ""
       THEN /\ submission' = Append(submission, Handled("stream_research", question, 400, <<>>, 0))
            /\ UNCHANGED research_tasks
       ELSE LET task_id == stream_task_id(question)
                progress_q == Cardinality(AcceptedAsync) + 1
            IN  /\ research_tasks' =
                       RegistryPut(research_tasks, task_id, [queue |-> progress_q, status |-> "starting"])
                /\ submission' = Append(submission,
                       Handled("stream_research", question, 200, task_id, progress_q))
    /\ UNCHANGED <<now, progress_queue, put_log, worker, history_files, stream, wf, sync, save_call, ra>>

\* lines 385 and 403: a stream handler of the task removes its entry
StreamRemoves(task_id) ==
    /\ task_id \in DOMAIN research_tasks
    /\ research_tasks' = RegistryPop(research_tasks, task_id)
    /\ UNCHANGED <<now, progress_queue, put_log, worker, history_files, stream, wf, sync,
                   save_call, ra, submission>>

\* the two submission routes, the clock and the stream handlers' removals
FrontNext ==
    \/ \E q \in PostedQuestions, lg \in BOOLEAN : research_route(q, lg)
    \/ \E q \in PostedQuestions, lg \in BOOLEAN : stream_research_route(q, lg)
    \/ \E t \in TaskIds : StreamRemoves(t)
    \/ Tick /\ UNCHANGED <<wf, sync, save_call, ra, submission>>

FrontSpec == Init /\ [][FrontNext]_vars

(* =========================== the claims ================================ *)
Last(seq) == seq[Len(seq)]

\* positions in a sequence of updates or events that hold a completed or error one
TerminalAt(log) == {i \in 1..Len(log) : log[i].status \in {"completed", "error"}}

\* C1: a worker puts at most one completed-or-error update on its queue, that
\* update is the last thing it puts, and a worker that has returned has put
\* exactly one.
C1_OneTerminalUpdate ==
    \A w \in Workers :
        /\ Cardinality(TerminalAt(put_log[w])) <= 1
        /\ \A i \in TerminalAt(put_log[w]) : i = Len(put_log[w])
        /\ worker[w].pc = "done" <=> Cardinality(TerminalAt(put_log[w])) = 1

\* C1 witness: a worker has returned through the except handler after it had put
\* progress updates
C1_Witness ==
    \E w \in Workers :
        /\ worker[w].pc = "done"
        /\ Len(put_log[w]) > 1
        /\ Last(put_log[w]).status = "error"

\* C5: the progress values of the updates a worker puts never decrease and
\* stay within 0..100, on every path.
C5_ProgressMonotone ==
    \A w \in Workers :
        /\ \A i \in 1..Len(put_log[w]) : put_log[w][i].progress \in 0..100
        /\ \A i \in 1..Len(put_log[w]), j \in 1..Len(put_log[w]) :
              i < j => put_log[w][i].progress <= put_log[w][j].progress

\* C5 witness: a direct-path worker has put all its checkpoints and completed
C5_Witness ==
    \E w \in Workers :
        /\ ~worker[w].use_langgraph
        /\ worker[w].pc = "done"
        /\ Len(put_log[w]) > 7
        /\ Last(put_log[w]).status = "completed"

\* C6 (as claimed): a worker whose four stages all returned ends with a
\* completed update that carries question, answer, sources, status and id.
C6_CompletedWhenStagesReturn ==
    \A w \in Workers :
        (worker[w].pc = "done" /\ worker[w].stages = 4) =>
            LET u == Last(put_log[w])
            IN /\ u.status = "completed"
               /\ DOMAIN u.results = {"question", "answer", "sources", "status", "id"}

\* C7: a worker in which a call raised ends with one error update whose message
\* and degraded result carry the exception text (status error, no sources, the
\* text in errors), and it never puts a completed update.
C7_ErrorUpdateOnRaise ==
    \A w \in Workers :
        worker[w].e # <<>> =>
            /\ \A i \in 1..Len(put_log[w]) : put_log[w][i].status # "completed"
            /\ worker[w].pc = "done" =>
                  LET u == Last(put_log[w])
                  IN /\ u.status = "error"
                     /\ u.progress = 100
                     /\ u.message = <<"Error: ">> \o worker[w].e
                     /\ u.results.question = worker[w].question
                     /\ u.results.status = "error"
                     /\ u.results.sources = <<>>
                     /\ u.results.errors = <<worker[w].e>>
                     /\ Cardinality(TerminalAt(put_log[w])) = 1

\* C7 witness: a stage raised in a worker that has returned
C7_Witness ==
    \E w \in Workers :
        /\ worker[w].pc = "done"
        /\ worker[w].e = ExcText("fact_check")

Started(s) == stream[s].pc \in {"l371", "l380", "l390", "l396", "done", "closed"}

TerminalYielded(t) ==
    \E r \in Streams :
        /\ stream[r].task_id = t
        /\ stream[r].events # <<>>
        /\ Last(stream[r].events).status \in {"completed", "error"}
        /\ "results" \in DOMAIN Last(stream[r].events)

\* C3 (as claimed): once a stream has yielded the worker's terminal update of a
\* task, every research_progress request for that task_id gets not-found.
C3_NotFoundAfterTerminal ==
    [][\A t \in TaskIds :
          (TerminalYielded(t) /\ research_progress(t)) => stream'[NextStream].pc = "notfound"]_vars

\* C4 (as claimed): a poll that times out yields a heartbeat, the stream goes on
\* polling and the task stays registered.
C4_HeartbeatOnTimeout ==
    [][\A s \in Streams :
          StreamTimeout(s) =>
              /\ Last(stream'[s].events) = [status |-> "heartbeat"]
              /\ stream'[s].pc \notin {"l396", "done"}
              /\ research_tasks' = research_tasks]_vars

\* C9: a step in which the consumer of a started stream disconnects leaves the
\* stream's task_id out of the registry.
C9_DisconnectDeregisters ==
    [][\A s \in Streams :
          (stream[s].pc # "closed" /\ stream'[s].pc = "closed") =>
              stream[s].task_id \notin DOMAIN research_tasks']_vars

\* C9 witness: the consumer has gone after a progress update and before the
\* terminal one, the worker is still running, and the task is deregistered
C9_Witness ==
    \E s \in Streams :
        /\ stream[s].pc = "closed"
        /\ Last(stream[s].events).status = "in_progress"
        /\ stream[s].task_id \notin DOMAIN research_tasks
        /\ \E w \in Workers : worker[w].task_id = stream[s].task_id /\ worker[w].pc # "done"

\* C10: when the graph execution has finished (graph.stream was exhausted
\* without raising) run returns the finalize stage's answer with status
\* success if the stages produced a final result, else the draft stage's answer
\* with status partial if they produced a draft, else a failure record with
\* status failed that carries the errors accumulated in the graph's state.
C10_ResultPrecedence ==
    (wf.pc = "returned" /\ wf.exception = <<>>) =>
        IF wf.produced.final_answer # EmptyDict
        THEN wf.result = run_success(wf.question, wf.produced.final_answer)
        ELSE IF wf.produced.draft_answer # EmptyDict
             THEN wf.result = run_partial(wf.question, wf.produced.draft_answer)
             ELSE wf.result = run_failed(wf.question, wf.state.errors)

\* the state the orchestrator would hold for the stage outcomes of the
\* synchronous call: the slots its stages returned, and the error of the stage
\* that raised
SyncStageState ==
    [question |-> sync.question, research_results |-> sync.research_results,
     draft_answer |-> sync.draft_answer, fact_check |-> sync.fact_check,
     final_answer |-> sync.final_answer, current_step |-> RESEARCH,
     errors |-> IF sync.e = <<>> THEN <<>> ELSE <<sync.e>>]

\* C11: when a direct synchronous call (no LangGraph) has returned, its status
\* is the status the orchestrator's precedence (workflow.py lines 370-392)
\* gives for the same stage outcomes: success with a final result, partial
\* with only a draft, failed otherwise.
C11_SyncStatusAsOrchestrator ==
    (sync.pc = "returned" /\ ~sync.use_langgraph) =>
        sync.results.status =
            run_return(sync.question, SyncStageState, SyncStageState).status

\* C12: no exception escapes an entry path of the web service: a worker that
\* caught an exception has put a structured error update as its last put, and
\* no stream handler has died of an exception outside its try (the KeyError of
\* the registry lookup of line 366).
C12_NoExceptionEscapes ==
    /\ \A w \in Workers :
          (worker[w].pc = "done" /\ worker[w].e # <<>>) =>
              Last(put_log[w]).status = "error"
    /\ \A s \in Streams : stream[s].pc # "KeyError"

\* the call of a collaborator failed
Failed(outcome) == "raises" \in DOMAIN outcome

\* the stage calls of the synchronous call, in the order they were made
SyncStages == [i \in 1..Len(sync.computed) |-> sync.computed[i].stage]

\* C13: whatever searches, fetches and LLM calls fail, a direct synchronous
\* call in which nothing else raised (no stage for another reason, not the
\* save) has run all four stages, every stage has returned a structured
\* result, a failed fetch contributes no source, fetches that all fail leave
\* the fixed marker as summary and no sources, and the status is success.
C13_CollaboratorFailuresDegrade ==
    (sync.pc = "returned" /\ ~sync.use_langgraph /\ sync.e = <<>>) =>
        /\ sync.results.status = "success"
        /\ SyncStages = <<"conduct_research", "draft_answer", "fact_check", "finalize_answer">>
        /\ DOMAIN sync.research_results = {"question", "summary", "sources", "raw_content"}
        /\ \A k \in {"draft_answer", "fact_check", "final_answer"} :
              {"question", "answer", "sources"} \subseteq DOMAIN sync[k]
        /\ \A i \in 1..Len(sync.research_results.sources) :
              ~Failed(sync.pages[sync.research_results.sources[i].url])
        /\ (\A u \in DOMAIN sync.pages : Failed(sync.pages[u])) =>
              /\ sync.research_results.summary = <<"No relevant content found.">>
              /\ sync.research_results.sources = <<>>

\* C13 witness: a direct call has returned success although a search, a fetch
\* and an LLM call of it failed
C13_Witness ==
    /\ sync.pc = "returned" /\ ~sync.use_langgraph /\ sync.e = <<>>
    /\ sync.results.status = "success"
    /\ \E i \in 1..3 : Failed(sync.searches[i])
    /\ \E u \in DOMAIN sync.pages : Failed(sync.pages[u])
    /\ \E i \in 1..Len(sync.llms) : Failed(sync.llms[i])

\* C14: in a direct synchronous call the draft is computed only when the
\* research result exists, the fact check only when the draft exists, and
\* the final answer only when the fact-check result exists.
C14_SyncStageOrder ==
    \A i \in 1..Len(sync.computed) :
        LET c == sync.computed[i]
        IN  /\ c.stage = "draft_answer" => "research_results" \in c.have
            /\ c.stage = "fact_check" => {"research_results", "draft_answer"} \subseteq c.have
            /\ c.stage = "finalize_answer" => "fact_check" \in c.have

\* C14 witness: a direct call has made its four stage calls
C14_Witness ==
    /\ sync.pc = "returned"
    /\ Len(sync.computed) = 4
    /\ sync.computed[4].stage = "finalize_answer"
    /\ sync.computed[4].have = {"research_results", "draft_answer", "fact_check"}

\* every search of the call answered with at least one result, and every
\* page that was fetched came back with a title and a text
SearchAndExtractSucceeded ==
    /\ DOMAIN sync.searches = 1..3
    /\ \A i \in 1..3 :
          "results" \in DOMAIN sync.searches[i] /\ sync.searches[i].results # <<>>
    /\ \A u \in DOMAIN sync.pages :
          ~Failed(sync.pages[u]) /\ sync.pages[u].text # <<>>

\* C15: when every search and every fetch of a direct synchronous call
\* succeeded and nothing raised (no stage, not the save), the call returns
\* status success with a non-empty answer, whatever the LLM calls returned.
C15_SuccessWithAnswer ==
    (sync.pc = "returned" /\ ~sync.use_langgraph /\ sync.e = <<>>
        /\ SearchAndExtractSucceeded /\ \A i \in 1..Len(sync.llms) : ~Failed(sync.llms[i])) =>
        /\ sync.results.status = "success"
        /\ sync.results.answer # <<>>

\* the research of the direct call has returned and every fetch it made failed
AllExtractsFailed ==
    /\ sync.research_results # EmptyDict
    /\ \A u \in DOMAIN sync.pages : Failed(sync.pages[u])

\* C16: when the fetch of every discovered url fails, the research result has
\* the fixed marker as summary, no sources and no raw content, every later
\* stage that has returned has returned a record with question, answer and
\* sources, and a call in which nothing else raised has all three of them.
C16_AllExtractsFail ==
    AllExtractsFailed =>
        /\ sync.research_results.summary = <<"No relevant content found.">>
        /\ sync.research_results.sources = <<>>
        /\ sync.research_results.raw_content = <<>>
        /\ \A k \in {"draft_answer", "fact_check", "final_answer"} :
              sync[k] # EmptyDict => {"question", "answer", "sources"} \subseteq DOMAIN sync[k]
        /\ (sync.pc = "returned" /\ sync.e = <<>>) =>
              /\ {"draft_answer", "fact_check", "final_answer"} \subseteq SyncHave
              /\ sync.results.status = "success"

\* C16 witness: a direct call has returned after two urls were discovered
\* and the fetch of both failed
C16_Witness ==
    /\ sync.pc = "returned" /\ sync.e = <<>>
    /\ DOMAIN sync.pages = {"u1", "u2"}
    /\ AllExtractsFailed
    /\ sync.final_answer # EmptyDict

\* the research of the direct call has returned and search_web gave no
\* result for any of its queries
NoSearchResults ==
    /\ sync.research_results # EmptyDict
    /\ \A i \in 1..3 :
          search_web(generate_search_queries(sync.question)[i], sync.searches[i]) = <<>>

\* C17: when every search of a direct synchronous call returns zero results
\* and nothing raised, the summary is the fixed "No relevant content found."
\* string, the final answer is the fixed insufficient-data answer, and the
\* status is success.
C17_ZeroResultsInsufficientData ==
    (sync.pc = "returned" /\ ~sync.use_langgraph /\ sync.e = <<>> /\ NoSearchResults) =>
        /\ sync.research_results.summary = <<"No relevant content found.">>
        /\ sync.results.answer = <<"Insufficient research data to provide an answer.">>
        /\ sync.results.status = "success"

\* the discovered urls whose fetch returned a page with a text
ExtractedUrls ==
    {u \in DOMAIN sync.pages : ~Failed(sync.pages[u]) /\ sync.pages[u].text # <<>>}

\* C18: when a direct synchronous call in which nothing raised has returned,
\* the sources of its result are exactly the discovered urls whose extraction
\* succeeded, each once, and the status is success.
C18_SourcesAreExtractedUrls ==
    (sync.pc = "returned" /\ ~sync.use_langgraph /\ sync.e = <<>>) =>
        /\ {sync.results.sources[i].url : i \in 1..Len(sync.results.sources)} = ExtractedUrls
        /\ Len(sync.results.sources) = Cardinality(ExtractedUrls)
        /\ sync.results.status = "success"

\* C19: at every moment after a save has returned its id, loading that id gives
\* the question, the answer and the sources this save stored, whatever other
\* saves have run or are running.
C19_LoadReturnsWhatSaveStored ==
    \A c \in Savers :
        save_call[c].pc = "returned" =>
            LET research == get_research_by_id(save_call[c].research_id)
            IN  /\ {"question", "answer", "sources"} \subseteq DOMAIN research
                /\ research.question = save_call[c].question
                /\ research.answer = save_call[c].answer
                /\ research.sources = save_call[c].sources

\* C20: a research_progress request for a task id that is not in the registry
\* is answered not-found, no generator is made for it, and the step leaves the
\* registry, every queue, every worker, the history files and every other
\* request as they were; the answered request does nothing afterwards.
C20_UnknownTaskNotFound ==
    [][\A s \in Streams :
          /\ (stream[s].pc = "idle" /\ stream'[s].pc # "idle"
                 /\ stream'[s].task_id \notin DOMAIN research_tasks) =>
                /\ stream'[s] = [IdleStream EXCEPT !.task_id = stream'[s].task_id,
                                                   !.pc = "notfound"]
                /\ \A o \in Streams \ {s} : stream'[o] = stream[o]
                /\ UNCHANGED <<research_tasks, progress_queue, put_log, worker, history_files>>
          /\ stream[s].pc = "notfound" => stream'[s] = stream[s]]_vars

\* C20 witness: a request was answered not-found while a task is registered and
\* its worker is running
C20_Witness ==
    \E s \in Streams, w \in Workers :
        /\ stream[s].pc = "notfound"
        /\ research_tasks # <<>>
        /\ worker[w].pc \notin {"idle", "done"}
        /\ progress_queue[w] # <<>>

\* the fixed order of the stages
StageOrder == <<RESEARCH, DRAFT_ANSWER, FACT_CHECK, FINALIZE>>

\* the stages that were executed before superstep i
RanBefore(i) == UNION {wf.ran[j] \cap StageNodes : j \in 1..(i - 1)}

\* a superstep runs at most one stage, and it is the one that follows the
\* stages executed so far
OneStageAtATimeInOrder ==
    \A i \in 1..Len(wf.ran) : \A k \in 1..Len(StageOrder) :
        StageOrder[k] \in wf.ran[i] =>
            /\ wf.ran[i] \cap StageNodes = {StageOrder[k]}
            /\ RanBefore(i) = {StageOrder[j] : j \in 1..(k - 1)}

\* a run in which no stage raised has executed the four stages when it returns
AllStagesExecuted ==
    (wf.pc = "returned" /\ wf.raised = {}) =>
        RanBefore(Len(wf.ran) + 1) = StageNodes

\* C21: in every run of the graph the stages are executed in the order research,
\* draft, fact-check, finalize, one per superstep, each after the stages ahead
\* of it, and a run in which no stage raises executes all four.
C21_StagesInFixedOrder == OneStageAtATimeInOrder /\ AllStagesExecuted

\* the states a stage node returns from its except branch when run on state
RaisedStates(node, state) == {out \in StageNode(node, state) : out.current_step = ERROR}

\* C22: whenever a stage node is about to run, the state it returns if its
\* agent call raises has the errors of the state it received followed by the
\* stage's error text, current_step ERROR, and the question and the four result
\* slots of the state it received.
C22_RaisingStageAppendsError ==
    wf.pc = "l358" =>
        \A node \in wf.active \cap StageNodes : \A out \in RaisedStates(node, wf.state) :
            /\ Len(out.errors) = Len(wf.state.errors) + 1
            /\ SubSeq(out.errors, 1, Len(wf.state.errors)) = wf.state.errors
            /\ out.errors[Len(out.errors)] = ErrorPrefix(node) \o ExcText(node)
            /\ out.current_step = ERROR
            /\ out.question = wf.state.question
            /\ \A n \in StageNodes : out[SlotOf(n)] = wf.state[SlotOf(n)]

\* C22 witness: a stage raised in a state that already held an error and a
\* result, and the state it returned is the graph's state
C22_Witness ==
    /\ wf.pc = "l358"
    /\ wf.state.current_step = ERROR
    /\ Len(wf.state.errors) >= 2
    /\ wf.state.research_results # EmptyDict

\* C23: a superstep that starts while the current step of the graph's state is
\* ERROR executes no stage node.
C23_ErrorIsAbsorbing ==
    [][(wf.pc = "l358" /\ wf.state.current_step = ERROR /\ Len(wf'.ran) > Len(wf.ran)) =>
          wf'.ran[Len(wf'.ran)] \cap StageNodes = {}]_vars

\* C24: whenever a stage node is about to run, the error handling applied to the
\* state the node returns if its agent call raises (the error node, then the
\* conditional edge) routes to the stage that follows that node in the order
\* research, draft, fact-check, finalize, end.
C24_ErrorRoutesToNextStage ==
    wf.pc = "l358" =>
        \A node \in wf.active \cap StageNodes : \A out \in RaisedStates(node, wf.state) :
            Successors(ERROR, _handle_error(out)) = {path_map(StepAfter(node))} \ {END}

\* The state keys of the graph take one value per superstep: a superstep in
\* which several nodes returned the state is the last one, graph.stream raised.
OneValuePerStep ==
    \A i \in 1..Len(wf.ran) :
        Cardinality(wf.ran[i]) > 1 =>
            i = Len(wf.ran) /\ wf.pc = "returned" /\ wf.exception = InvalidUpdateError

\* the number of supersteps that executed node
TimesRun(node) == Cardinality({i \in 1..Len(wf.ran) : node \in wf.ran[i]})

\* the number of calls of stage the direct runner has made
TimesCalled(stage) ==
    Cardinality({i \in 1..Len(sync.computed) : sync.computed[i].stage = stage})

\* C25: in one pipeline run every stage is executed at most once, on the
\* orchestrator (whose state keys take one value per step) and on the direct
\* path, and the direct path makes one search per query, one fetch per url
\* found and at most one LLM call per stage, whatever failed.
C25_NothingIsRetried ==
    /\ OneValuePerStep => \A node \in StageNodes : TimesRun(node) <= 1
    /\ ~sync.use_langgraph =>
          /\ \A i \in 1..Len(sync.computed) : TimesCalled(sync.computed[i].stage) <= 1
          /\ Len(sync.searches) \in {0, Len(generate_search_queries(sync.question))}
          /\ sync.searches # <<>> =>
                DOMAIN sync.pages \subseteq
                    unique_urls(all_results(generate_search_queries(sync.question),
                                            sync.searches))
          /\ Len(sync.llms) <= Len(sync.computed)

\* C25 witness: a direct run has returned after a search raised, a fetch raised
\* and an LLM call raised, with its four stages called
C25_Witness ==
    /\ sync.pc = "returned"
    /\ ~sync.use_langgraph
    /\ Len(sync.computed) = 4
    /\ \E i \in 1..Len(sync.searches) : Failed(sync.searches[i])
    /\ \E u \in DOMAIN sync.pages : Failed(sync.pages[u])
    /\ \E i \in 1..Len(sync.llms) : Failed(sync.llms[i])
    /\ sync.e = <<>>

\* C26: in a run of the orchestrator (whose state keys take one value per
\* step) the state a stage node returns, whether its call returned or raised,
\* has the question and the other three slots of the state it received; every
\* slot of the graph's state is empty or holds what its stage returned; and no
\* stage is executed a second time, so a written slot is not written again.
C26_StagesWriteOwnSlotOnce ==
    OneValuePerStep =>
        /\ wf.pc = "l358" =>
              \A node \in wf.active \cap StageNodes : \A out \in StageNode(node, wf.state) :
                  /\ out.question = wf.state.question
                  /\ \A n \in StageNodes \ {node} : out[SlotOf(n)] = wf.state[SlotOf(n)]
        /\ wf.pc # "idle" =>
              \A n \in StageNodes :
                  wf.state[SlotOf(n)] \in {EmptyDict, wf.produced[SlotOf(n)]}
        /\ \A n \in StageNodes :
              wf.produced[SlotOf(n)] # EmptyDict => TimesRun(n) = 1

\* C26 witness: the research slot is written and the draft node is about to run
\* on it
C26_Witness ==
    /\ wf.pc = "l358"
    /\ OneValuePerStep
    /\ wf.state.research_results # EmptyDict
    /\ wf.state.draft_answer = EmptyDict
    /\ DRAFT_ANSWER \in wf.active

\* C27: a stream request that has passed the not-found check and whose
\* generator has not started yet still has its task in the registry, so the
\* lookup its generator starts with finds the task, and no request has failed
\* on a key missing from the registry.
C27_RegistryLookupFindsTask ==
    \A s \in Streams :
        /\ stream[s].pc = "created" => stream[s].task_id \in DOMAIN research_tasks
        /\ stream[s].pc # "KeyError"

\* the updates stream s has taken from its queue, in order
Taken(s) == SelectSeq(stream[s].events, LAMBDA ev : "step" \in DOMAIN ev)

\* C28: no two stream handlers are reading the same queue at the same time, and
\* what a stream handler has taken from its queue are the first updates its
\* task's worker has put, none left out.
C28_OneConsumerPerChannel ==
    /\ \A s, r \in Streams :
          (s # r /\ Polling(s) /\ Polling(r)) => stream[s].queue # stream[r].queue
    /\ \A s \in Streams :
          stream[s].queue \in Workers =>
              /\ Len(Taken(s)) <= Len(put_log[stream[s].queue])
              /\ Taken(s) = SubSeq(put_log[stream[s].queue], 1, Len(Taken(s)))

\* C29: the worker of every submitted task eventually returns with a completed
\* or error update as its last put, whatever the stream requests do.
C29_WorkerReachesTerminalPut ==
    \A w \in Workers :
        (worker[w].pc # "idle") ~>
            (worker[w].pc = "done" /\ put_log[w] # <<>> /\ IsTerminal(Last(put_log[w])))

\* C29 witness: a worker has put its terminal update after the only stream of
\* its task was closed, and the update stays in the queue
C29_Witness ==
    \E w \in Workers, s \in Streams :
        /\ worker[w].pc = "done"
        /\ IsTerminal(Last(put_log[w]))
        /\ stream[s].pc = "closed" /\ stream[s].queue = w
        /\ \A r \in Streams \ {s} : stream[r].pc = "idle"
        /\ Len(stream[s].events) = 1
        /\ progress_queue[w] = put_log[w]

\* the task ids for which a stream handler has ended, by itself or by its
\* client's disconnect
StreamEnded == {stream[s].task_id : s \in {r \in Streams : stream[r].pc \in {"done", "closed"}}}

\* C30: a step that adds a registry entry, or puts another entry in the place
\* of one, is a submission that starts the worker of that entry; a step that
\* removes one is the end of a stream handler of that task (after the terminal
\* update, or on disconnect); a step of a running worker leaves the registry as
\* it was; and the task of a submission stays registered, also after its worker
\* has returned, as long as no stream handler of the task has ended.
C30_RegistryFrame ==
    /\ [][/\ \A t \in {u \in DOMAIN research_tasks' :
                          u \in DOMAIN research_tasks => research_tasks'[u] # research_tasks[u]} :
                \E w \in Workers :
                    /\ worker[w].pc = "idle" /\ worker'[w].pc = "l115"
                    /\ worker'[w].task_id = t /\ research_tasks'[t].queue = w
          /\ \A t \in DOMAIN research_tasks \ DOMAIN research_tasks' :
                \E s \in Streams :
                    /\ stream[s].task_id = t
                    /\ stream[s].pc \notin {"done", "closed"}
                    /\ stream'[s].pc \in {"done", "closed"}
          /\ (\E w \in Workers : worker[w].pc # "idle" /\ worker'[w] # worker[w]) =>
                research_tasks' = research_tasks]_vars
    /\ [](\A w \in Workers :
             (worker[w].pc # "idle" /\ worker[w].task_id \notin StreamEnded) =>
                 worker[w].task_id \in DOMAIN research_tasks)

\* C30 witness: a worker has returned, no stream was requested, and its task is
\* registered with its updates in the queue
C30_Witness ==
    \E w \in Workers :
        /\ worker[w].pc = "done"
        /\ \A s \in Streams : stream[s].pc = "idle"
        /\ worker[w].task_id \in DOMAIN research_tasks
        /\ research_tasks[worker[w].task_id].queue = w
        /\ progress_queue[w] = put_log[w]

\* the urls whose extraction was called
ExtractionsStarted ==
    ra.extracted \cup {c[2] : c \in {d \in ra.in_flight : d[1] = "extract_content"}}

\* C31: in a call of conduct_research at most one collaborator call is in
\* flight; while a search is in flight, or a query has not been searched, no
\* extraction has been called; and extraction is called for at most 5 urls.
C31_OneCollaboratorCallAtATime ==
    /\ Cardinality(ra.in_flight) <= 1
    /\ ExtractionsStarted # {} =>
          /\ ra.i > Len(ra.search_queries)
          /\ \A c \in ra.in_flight : c[1] # "search_web"
    /\ Cardinality(ExtractionsStarted) <= 5

\* C31 witness: the searches found six urls and the call has returned with
\* five of them extracted
C31_Witness ==
    /\ ra.pc = "returned"
    /\ Cardinality(ra.unique_urls) = 6
    /\ Cardinality(ra.extracted) = 5
    /\ ra.in_flight = {}

\* the percentage of each checkpoint
Checkpoint(step) ==
    CASE step = "starting" -> 5
      [] step = "initializing" -> 10
      [] step \in {"searching", "researching"} -> 20
      [] step = "extracting" -> 40
      [] step = "drafting" -> 60
      [] step = "fact_checking" -> 80
      [] step = "finalizing" -> 90
      [] step \in {"completed", "error"} -> 100

\* the steps of the updates worker w has put, in order
StepsPut(w) == [i \in 1..Len(put_log[w]) |-> put_log[w][i].step]

\* C32: when a worker is at the call of a stage its last put is the update of
\* the checkpoint before that stage (extracting, drafting, fact_checking,
\* finalizing; researching before workflow.run); when stages have returned, the
\* update that follows each of them has been put, the one after the last stage
\* being the terminal update; and every update carries the percentage of its
\* checkpoint.
C32_CheckpointsAroundStages ==
    \A w \in Workers :
        /\ worker[w].pc = "l169" => Last(put_log[w]) = UpdateExtracting
        /\ worker[w].pc = "l178" => Last(put_log[w]) = UpdateDrafting
        /\ worker[w].pc = "l187" => Last(put_log[w]) = UpdateFactChecking
        /\ worker[w].pc = "l196" => Last(put_log[w]) = UpdateFinalizing
        /\ worker[w].pc = "l142" => Last(put_log[w]) = UpdateResearchingLangGraph
        /\ worker[w].stages >= 1 => \E i \in 1..Len(put_log[w]) : put_log[w][i] = UpdateDrafting
        /\ worker[w].stages >= 2 => \E i \in 1..Len(put_log[w]) : put_log[w][i] = UpdateFactChecking
        /\ worker[w].stages >= 3 => \E i \in 1..Len(put_log[w]) : put_log[w][i] = UpdateFinalizing
        /\ worker[w].pc = "done" => IsTerminal(Last(put_log[w]))
        /\ \A i \in 1..Len(put_log[w]) : put_log[w][i].progress = Checkpoint(put_log[w][i].step)

\* C32 witness: a worker has returned after its four stage calls returned, with
\* the checkpoints of the direct path in its log
C32_Witness ==
    \E w \in Workers :
        /\ worker[w].pc = "done"
        /\ worker[w].stages = 4
        /\ StepsPut(w) = <<"starting", "initializing", "searching", "extracting", "drafting",
                           "fact_checking", "finalizing", "completed">>

\* this step is a /stream_research submission that was accepted
AsyncAccepted ==
    /\ Len(submission') = Len(submission) + 1
    /\ Last(submission').route = "stream_research"
    /\ Last(submission').code = 200

\* C33 (as claimed): an accepted /stream_research submission gets a task id
\* that no task in the registry has at that moment, so that storing its entry
\* replaces no entry; and as long as the id returned to a submission is in the
\* registry, it leads to the queue that submission's worker was started with.
C33_TaskIdsAreFresh ==
    /\ [][AsyncAccepted => Last(submission').task_id \notin DOMAIN research_tasks]_vars
    /\ [](\A i \in AcceptedAsync :
            submission[i].task_id \in DOMAIN research_tasks =>
                research_tasks[submission[i].task_id].queue = submission[i].queue)

\* this step handles a submission whose question is empty
EmptySubmitted ==
    /\ Len(submission') = Len(submission) + 1
    /\ Last(submission').question = ""

\* C39: a submission with an empty question, on either route, is answered
\* with the 400 error response and leaves everything but the log of handled
\* submissions as it was: no stage call, no registry entry, no queue, no
\* worker, no history record.
C39_EmptyQuestionRejected ==
    [][EmptySubmitted =>
          /\ Last(submission').code = 400
          /\ Last(submission').task_id = <<>>
          /\ UNCHANGED <<now, research_tasks, progress_queue, put_log, worker, history_files,
                         stream, wf, sync, save_call, ra>>]_vars

\* C39 witness: both routes have rejected an empty question while a task is
\* registered and a record is in the history
C39_Witness ==
    /\ \E i \in 1..Len(submission) :
          submission[i] = Handled("research", "", 400, <<>>, 0)
    /\ \E i \in 1..Len(submission) :
          /\ submission[i] = Handled("stream_research", "", 400, <<>>, 0)
          /\ \E j \in 1..(i - 1) : submission[j].code = 200
    /\ DOMAIN research_tasks \cup DOMAIN history_files # {}

\* request s is the only stream of its task
SingleStream(s) ==
    \A r \in Streams \ {s} : Started(r) => stream[r].queue # stream[s].queue

\* what stream s has yielded, the connected event and the heartbeats left out
Yielded(s) ==
    SelectSeq(stream[s].events, LAMBDA ev : ev.status \notin {"connected", "heartbeat"})

\* C34 (as claimed): for a task with a single stream, the events yielded other
\* than connected and heartbeat are the worker's updates, in the order they
\* were put, none left out and none twice; and a stream that has ended by
\* itself has yielded them up to and including the terminal update.
C34_StreamDeliversUpdates ==
    \A s \in Streams :
        (Started(s) /\ SingleStream(s)) =>
            LET y == Yielded(s)
                log == put_log[stream[s].queue]
            IN  /\ Len(y) <= Len(log)
                /\ \A i \in 1..Len(y) : "step" \in DOMAIN y[i] /\ y[i] = log[i]
                /\ stream[s].pc = "done" => y # <<>> /\ IsTerminal(Last(y)) /\ Len(y) = Len(log)

\* C35 (as claimed): when a stream has ended, by the terminal update, by an
\* exception inside its loop or by the client's disconnect, its task is not in
\* the registry.
C35_EndedStreamDeregistered ==
    \A s \in Streams :
        stream[s].pc \in {"done", "closed"} => stream[s].task_id \notin DOMAIN research_tasks

\* the save of worker w has raised
SaveRaised(w) == worker[w].e = ExcText("save_research_to_history")

\* C36: a completed update is put only after the history save has returned
\* an id, which the update's results carry and under which the record is
\* stored; a worker whose save raised, its stages having returned, puts no
\* completed update and ends with the error update; and the degraded result of
\* the error update is in no history record.
C36_CompletedOnlyAfterSave ==
    \A w \in Workers :
        /\ \A i \in 1..Len(put_log[w]) :
              put_log[w][i].status = "completed" =>
                  /\ worker[w].saves = 1
                  /\ "id" \in DOMAIN put_log[w][i].results
                  /\ put_log[w][i].results.id \in DOMAIN history_files
        /\ SaveRaised(w) =>
              /\ worker[w].saves = 0
              /\ \A i \in 1..Len(put_log[w]) : put_log[w][i].status # "completed"
              /\ worker[w].pc = "done" => Last(put_log[w]).status = "error"
        /\ \A i \in 1..Len(put_log[w]) :
              put_log[w][i].status = "error" =>
                  \A id \in DOMAIN history_files :
                      history_files[id].answer # put_log[w][i].results.answer

\* C36 witness: the four stages returned, the save raised and the worker has
\* returned after its error update, with nothing in the history
C36_Witness ==
    \E w \in Workers :
        /\ worker[w].pc = "done"
        /\ worker[w].stages = 4
        /\ SaveRaised(w)
        /\ Last(put_log[w]).status = "error"
        /\ history_files = <<>>

\* C37: whatever stage calls raise, a run that was called returns, and what it
\* returns is a record with the question, an answer, the sources and a status
\* that is success, partial, failed or error.
C37_RunReturnsStatusRecord ==
    /\ [](wf.pc = "returned" =>
            /\ {"question", "answer", "sources", "status"} \subseteq DOMAIN wf.result
            /\ wf.result.status \in {"success", "partial", "failed", "error"}
            /\ wf.result.question = wf.question)
    /\ (wf.pc = "l358" ~> wf.pc = "returned")

\* C37 witness: a run in which the research stage and the draft stage raised
\* has returned
C37_Witness ==
    /\ wf.pc = "returned"
    /\ wf.raised = {RESEARCH, DRAFT_ANSWER}
    /\ OneValuePerStep
    /\ wf.result.status = "error"

\* the node that follows a stage when it returns normally: the next stage, none
\* after the last
RegularSuccessor(node) ==
    CASE node = RESEARCH -> {DRAFT_ANSWER}
      [] node = DRAFT_ANSWER -> {FACT_CHECK}
      [] node = FACT_CHECK -> {FINALIZE}
      [] node = FINALIZE -> {}

\* C38 (as claimed): a superstep executes the error node only when a stage has
\* raised before it; and a superstep whose only node is a stage that returned
\* normally schedules the next stage and nothing else (nothing after the last
\* stage).
C38_ErrorNodeOnlyAfterRaise ==
    [][(wf.pc = "l358" /\ Len(wf'.ran) > Len(wf.ran)) =>
          /\ ERROR \in Last(wf'.ran) => wf.raised # {}
          /\ \A node \in StageNodes :
                (wf.active = {node} /\ wf'.raised = wf.raised /\ wf'.pc = "l358") =>
                    wf'.active = RegularSuccessor(node)]_vars

\* the research stage of the synchronous call has returned its results
ResearchReturned == "sources" \in DOMAIN sync.research_results

\* the urls of the research sources
ResearchSourceUrls ==
    {sync.research_results.sources[i].url : i \in 1..Len(sync.research_results.sources)}

\* the fetch of url u gave a page with a text
ExtractionSucceeded(u) == ~Failed(sync.pages[u]) /\ sync.pages[u].text # <<>>

\* C40 (as claimed): when the research stage has returned, a url it extracted
\* is among its sources if and only if the extraction of that url succeeded.
C40_SourcesIffExtractionSucceeded ==
    ResearchReturned =>
        \A u \in DOMAIN sync.pages : u \in ResearchSourceUrls <=> ExtractionSucceeded(u)
====
